---- MODULE Spec2Model ----
(***************************************************************************)
(* Verification model of the engine's cluster control plane:               *)
(*   - select_nodegroups_autoscaling_group_behavior (node-pool desired     *)
(*     state), cloud_provider/aws/kubernetes/eks.rs                        *)
(*   - check_failed_nodegroups_to_remove (failed node-pool selection),     *)
(*     cloud_provider/aws/kubernetes/eks.rs                                *)
(*   - StdMetricsRegistry and StepRecordHandle, metrics_registry.rs        *)
(*   - EKS::upgrade_with_status, cloud_provider/aws/kubernetes/eks.rs      *)
(* Each component has its own specification over the shared variables; the *)
(* variables of the other components stay at their initial values.         *)
(***************************************************************************)
EXTENDS Integers, Sequences, FiniteSets, Bags, TLC

VARIABLES
    \* node-pool reconciler
    action,             \* KubernetesClusterAction handed to the reconciler
    nodegroup,          \* NodeGroups: [min_nodes, max_nodes]
    desired_state,      \* Option<NodeGroupsWithDesiredState>: <<>> before the call
    \* failed node-pool selection
    nodegroups,         \* Vec<DescribeNodegroupOutput>
    to_remove,          \* Option<Result<Vec<..>, NodeGroupToRemoveFailure>>
    \* step/metrics registry
    registry,           \* MetricsRegistryMap: id -> (step name -> StepRecord)
    sink,               \* bag of the records sent through message_publisher
    handles,            \* per execution path: the StepRecordHandle it holds or drops
    history,            \* per execution path: what happened to its handle's key since start_record
    \* EKS::upgrade_with_status
    required_upgrade_on,    \* kubernetes_upgrade_status.required_upgrade_on
    deployments,            \* what get_deployments returns
    statefulsets,           \* what get_statefulsets returns
    autoscaler_replicas,    \* replicas of the cluster autoscaler deployment in the cluster
    replicas_before,        \* its replicas when upgrade_with_status was called
    pc,                     \* the statement upgrade_with_status is at
    idx,                    \* position of the running for loop in its list
    guard_armed,            \* whether _guard (scopeguard) has been created
    context,                \* the tera context values the routine inserts
    calls,                  \* the external calls issued so far, in order
    upgrade_result,         \* Option<Result<(), EngineError>> returned
    cluster_upgrade_timeout_in_min, \* the timeout handed to tera_context
    \* delete_eks_nodegroups
    is_first_install,               \* the argument is_first_install
    nodegroup_delete_selection,     \* NodeGroupsDeletionType: "All" or "FailedOnly"
    all_cluster_nodegroups_described,   \* what describe_nodegroups returns when it succeeds
    cluster_nodegroups,             \* names of the node groups the cluster has
    nodegroups_to_delete,           \* the Vec the for loop runs over
    delete_pc,                      \* the statement delete_eks_nodegroups is at
    delete_idx,                     \* position of the for loop in nodegroups_to_delete
    aws_calls,                      \* the requests sent through aws_conn so far, in order
    delete_result,                  \* Option<Result<(), EngineError>> returned
    \* ScwNodeGroup::new
    scw_args,                       \* the arguments of ScwNodeGroup::new
    scw_node_group,                 \* Option<Result<ScwNodeGroup, CommandError>> returned
    \* EKS::new and the lifecycle calls on the cluster object
    nodes_groups,                   \* the argument nodes_groups: the instance type of each group
    new_pc,                         \* the statement EKS::new is at
    eks,                            \* Option<EKS>: the cluster object, once constructed
    new_result,                     \* Option<Result<(), EngineError>>: what EKS::new returned
    lifecycle,                      \* the lifecycle call in progress: [action, pc, result]
    lifecycle_calls,                \* the routines the lifecycle calls delegated to, in order
    \* the mutex of StdMetricsRegistry
    mutex,                          \* the path that holds registry.lock(), 0 when it is free
    op,                             \* per execution path: the registry call it is in, [kind, pc]
    ops_done                        \* per execution path: the calls it has completed

reconcilerVars == <<action, nodegroup, desired_state>>
removalVars == <<nodegroups, to_remove>>
registryVars == <<registry, sink, handles, history>>
upgradeVars ==
    <<required_upgrade_on, deployments, statefulsets, autoscaler_replicas, replicas_before, pc, idx,
      guard_armed, context, calls, upgrade_result, cluster_upgrade_timeout_in_min>>
deleteVars ==
    <<is_first_install, nodegroup_delete_selection, all_cluster_nodegroups_described,
      cluster_nodegroups, nodegroups_to_delete, delete_pc, delete_idx, aws_calls, delete_result>>
scwVars == <<scw_args, scw_node_group>>
eksVars == <<nodes_groups, new_pc, eks, new_result, lifecycle, lifecycle_calls>>
lockVars == <<mutex, op, ops_done>>
vars == <<reconcilerVars, removalVars, registryVars, upgradeVars, deleteVars, scwVars, eksVars,
          lockVars>>
notReconcilerVars == <<removalVars, registryVars, upgradeVars, deleteVars, scwVars, eksVars, lockVars>>
notRemovalVars == <<reconcilerVars, registryVars, upgradeVars, deleteVars, scwVars, eksVars, lockVars>>
notRegistryVars == <<reconcilerVars, removalVars, upgradeVars, deleteVars, scwVars, eksVars, lockVars>>
notUpgradeVars == <<reconcilerVars, removalVars, registryVars, deleteVars, scwVars, eksVars, lockVars>>
notDeleteVars == <<reconcilerVars, removalVars, registryVars, upgradeVars, scwVars, eksVars, lockVars>>
notScwVars == <<reconcilerVars, removalVars, registryVars, upgradeVars, deleteVars, eksVars, lockVars>>
notEksVars == <<reconcilerVars, removalVars, registryVars, upgradeVars, deleteVars, scwVars, lockVars>>
notLockVars == <<reconcilerVars, removalVars, registryVars, upgradeVars, deleteVars, scwVars, eksVars>>

\* Option<T>: None is the empty sequence, Some(x) the one-element sequence.
None == <<>>
Some(x) == <<x>>
IsSome(o) == Len(o) = 1
Unwrap(o) == o[1]

(***************************************************************************)
(* Node-pool reconciler                                                    *)
(***************************************************************************)
\* Largest pool bound explored; observed node counts range one below the
\* smallest minimum and one above the largest maximum.
MaxNodes == 3

NodeCounts == 0..MaxNodes
ObservedCounts == (0 - 1)..(MaxNodes + 1)
CurrentNodes == {None} \cup {Some(x) : x \in ObservedCounts}

\* enum KubernetesClusterAction
KubernetesClusterAction ==
    {[kind |-> k, current_nodes |-> None] : k \in {"Bootstrap", "Pause", "Delete"}}
    \cup {[kind |-> k, current_nodes |-> c] : k \in {"Update", "Upgrade", "Resume"}, c \in CurrentNodes}

\* NodeGroups values that construction lets through (min_nodes <= max_nodes)
NodeGroups ==
    {[min_nodes |-> lo, max_nodes |-> hi] : lo \in NodeCounts, hi \in NodeCounts}

ValidNodeGroups == {ng \in NodeGroups : ng.min_nodes <= ng.max_nodes}

\* A variant of the constructor that drops its flag and always enables the
\* desired size.
new_from_node_groups_always_enabled(ng, desired_size, enable_desired_size) ==
    [min_nodes |-> ng.min_nodes, max_nodes |-> ng.max_nodes,
     desired_size |-> desired_size, enable_desired_size |-> TRUE]

\* NodeGroupsWithDesiredState::new_from_node_groups
new_from_node_groups(ng, desired_size, enable_desired_size) ==
    [min_nodes |-> ng.min_nodes, max_nodes |-> ng.max_nodes,
     desired_size |-> desired_size, enable_desired_size |-> enable_desired_size]

\* Variants of the closure that drop one part of it: without the upper clamp,
\* and without any clamp. The properties below must tell them from the closure.
nodegroup_desired_state_no_upper_clamp(ng, x) ==
    IF x < ng.min_nodes THEN <<TRUE, ng.min_nodes>> ELSE <<FALSE, x>>

nodegroup_desired_state_no_clamp(ng, x) == <<FALSE, x>>

\* the closure nodegroup_desired_state: (forced, value)
nodegroup_desired_state(ng, x) ==
    IF x < ng.min_nodes THEN <<TRUE, ng.min_nodes>>
    ELSE IF x > ng.max_nodes THEN <<TRUE, ng.max_nodes>>
    ELSE <<FALSE, x>>

\* A variant that treats every action as Bootstrap.
select_nodegroups_always_bootstrap(a, ng) == new_from_node_groups(ng, ng.min_nodes, TRUE)

\* fn select_nodegroups_autoscaling_group_behavior
select_nodegroups_autoscaling_group_behavior(a, ng) ==
    CASE a.kind = "Bootstrap" -> new_from_node_groups(ng, ng.min_nodes, TRUE)
      [] a.kind \in {"Update", "Upgrade"} ->
            LET r == IF IsSome(a.current_nodes)
                     THEN nodegroup_desired_state(ng, Unwrap(a.current_nodes))
                     ELSE <<TRUE, ng.max_nodes>>
            IN new_from_node_groups(ng, r[2], r[1])
      [] a.kind \in {"Pause", "Delete"} -> new_from_node_groups(ng, ng.min_nodes, FALSE)
      [] a.kind = "Resume" ->
            LET resume_nodes_number ==
                    IF IsSome(a.current_nodes)
                    THEN nodegroup_desired_state(ng, Unwrap(a.current_nodes))[2]
                    ELSE ng.min_nodes
            IN new_from_node_groups(ng, resume_nodes_number, TRUE)

ReconcilerIdle ==
    /\ action = [kind |-> "Bootstrap", current_nodes |-> None]
    /\ nodegroup = [min_nodes |-> 0, max_nodes |-> 0]
    /\ desired_state = None

(***************************************************************************)
(* Failed node-pool selection                                              *)
(***************************************************************************)
\* Longest node-pool list explored.
MaxPools == 3

\* aws_sdk_eks::model::NodegroupStatus
NodegroupStatus ==
    {"Active", "Creating", "Updating", "Deleting", "CreateFailed", "DeleteFailed", "Degraded"}

\* A variant of the match that lets Degraded pools through.
FailedStatusesWithoutDegraded == {"CreateFailed", "DeleteFailed"}

\* the statuses whose match arm pushes the pool to failed_nodegroups_to_remove
FailedStatuses == {"CreateFailed", "DeleteFailed", "Degraded"}

\* DescribeNodegroupOutput at position i of the list: nodegroup() is None, or a
\* Nodegroup whose name is its position and whose status() may be None.
DescribeNodegroupOutput(i) ==
    {[nodegroup |-> None]}
    \cup {[nodegroup |-> Some([nodegroup_name |-> i, status |-> st])] :
            st \in {None} \cup {Some(s) : s \in NodegroupStatus}}

NodegroupLists ==
    UNION {{l \in [1..n -> UNION {DescribeNodegroupOutput(i) : i \in 1..n}] :
                \A i \in 1..n : l[i] \in DescribeNodegroupOutput(i)} : n \in 0..MaxPools}

\* Result<T, E>
Ok(v) == [ok |-> TRUE, value |-> v]
Err(e) == [ok |-> FALSE, err |-> e]

\* A variant of the loop that passes over a pool without nodegroup() as it
\* passes over a pool without status.
RECURSIVE collect_skipping_unidentified(_, _, _)
collect_skipping_unidentified(ngs, i, failed_nodegroups_to_remove) ==
    IF i > Len(ngs) THEN Ok(failed_nodegroups_to_remove)
    ELSE IF ~IsSome(ngs[i].nodegroup)
    THEN collect_skipping_unidentified(ngs, i + 1, failed_nodegroups_to_remove)
    ELSE LET ng == Unwrap(ngs[i].nodegroup) IN
         IF IsSome(ng.status) /\ Unwrap(ng.status) \in FailedStatuses
         THEN collect_skipping_unidentified(ngs, i + 1, Append(failed_nodegroups_to_remove, ngs[i]))
         ELSE collect_skipping_unidentified(ngs, i + 1, failed_nodegroups_to_remove)

\* the for loop of check_failed_nodegroups_to_remove from position i on, with
\* the pools pushed so far; a pool without nodegroup() returns at once
RECURSIVE collect_failed_nodegroups(_, _, _)
collect_failed_nodegroups(ngs, i, failed_nodegroups_to_remove) ==
    IF i > Len(ngs) THEN Ok(failed_nodegroups_to_remove)
    ELSE IF ~IsSome(ngs[i].nodegroup) THEN Err("NodeGroupNotFound")
    ELSE LET ng == Unwrap(ngs[i].nodegroup) IN
         IF IsSome(ng.status) /\ Unwrap(ng.status) \in FailedStatuses
         THEN collect_failed_nodegroups(ngs, i + 1, Append(failed_nodegroups_to_remove, ngs[i]))
         ELSE collect_failed_nodegroups(ngs, i + 1, failed_nodegroups_to_remove)

\* A variant without the final guard on the number of pools collected.
check_failed_nodegroups_unguarded(ngs) == collect_failed_nodegroups(ngs, 1, <<>>)

\* fn check_failed_nodegroups_to_remove
check_failed_nodegroups_to_remove(ngs) ==
    LET collected == collect_failed_nodegroups(ngs, 1, <<>>) IN
    IF ~collected.ok THEN collected
    ELSE IF Len(collected.value) = Len(ngs) /\ ngs # <<>>
         THEN Err("OneNodeGroupMustBeActiveAtLeast")
         ELSE Ok(collected.value)

RemovalIdle ==
    /\ nodegroups = <<>>
    /\ to_remove = None

(***************************************************************************)
(* Step/metrics registry                                                   *)
(***************************************************************************)
\* Capacity of the sink: a start or an explicit stop is explored while the sink
\* has room for its record and for the record of every handle still to be dropped.
MaxSent == 3

\* The concurrent execution paths; each holds at most one handle at a time and
\* may start another record once it has dropped it.
Paths == {1, 2}

\* enum StepStatus, enum StepLabel
StepStatus == {"Success", "Error", "Cancel", "Skip", "NotSet"}
\* the statuses the explicit stops are explored with: stop_record stores and
\* publishes its status argument without looking at it, and NotSet is what the
\* drop of a handle passes
StoppedWith == {"Success", "Error"}
StepLabel == {"Service", "Environment"}

\* The (id, step name) pairs in use: id 1 is a service with two of the steps of
\* enum StepName, id 2 an environment with one.
Keys == {<<1, "Total">>, <<1, "Deployment">>, <<2, "Total">>}
Ids == {k[1] : k \in Keys}
LabelOf(id) == IF id = 1 THEN "Service" ELSE "Environment"

\* Instant and Duration values are opaque: a record keeps that it has a start
\* time, and start_time.elapsed() is the one Duration value.
Instant_now == "instant"
Elapsed == "elapsed"

EmptyMap == [x \in {} |-> x]

\* StepRecord::new
StepRecord_new(step_name, label, id) ==
    [step_name |-> step_name, label |-> label, id |-> id,
     start_time |-> Instant_now, duration |-> None, status |-> None]

\* registry.entry(id).or_insert(HashMap::new())
entry_or_insert(reg, id) ==
    IF id \in DOMAIN reg THEN reg
    ELSE [x \in DOMAIN reg \cup {id} |-> IF x = id THEN EmptyMap ELSE reg[x]]

\* A variant of the insert that leaves the map of the id with that record alone.
insert_record_alone(reg, id, step_name, rec) ==
    [reg EXCEPT ![id] = [s \in {step_name} |-> rec]]

\* HashMap::insert of a step record into the map of its id
insert_record(reg, id, step_name, rec) ==
    [reg EXCEPT ![id] =
        [s \in DOMAIN reg[id] \cup {step_name} |-> IF s = step_name THEN rec ELSE reg[id][s]]]

\* A variant of start_record that keeps the record a key already has.
start_record_keeping_existing(reg, id, label, step_name) ==
    LET r == entry_or_insert(reg, id) IN
    IF step_name \in DOMAIN r[id] THEN r
    ELSE insert_record(r, id, step_name, StepRecord_new(step_name, label, id))

\* StdMetricsRegistry::start_record: the registry after the call
start_record(reg, id, label, step_name) ==
    insert_record(entry_or_insert(reg, id), id, step_name, StepRecord_new(step_name, label, id))

\* A variant of the write of stop_record that leaves the status as it is.
stopped_record_without_status(rec, status) ==
    [rec EXCEPT !.duration = Some(Elapsed)]

\* the record stop_record writes: duration from start_time.elapsed(), status
stopped_record(rec, status) ==
    [rec EXCEPT !.duration = Some(Elapsed), !.status = Some(status)]

\* A variant of stop_record that makes and sends a finished record for a key
\* that has none.
stop_record_creating(reg, snk, id, step_name, status) ==
    LET r == entry_or_insert(reg, id)
        rec == stopped_record(IF step_name \in DOMAIN r[id] THEN r[id][step_name]
                              ELSE StepRecord_new(step_name, "Service", id), status)
    IN [registry |-> insert_record(r, id, step_name, rec), sink |-> snk (+) SetToBag({rec})]

\* StdMetricsRegistry::stop_record: the registry and the sink after the call
stop_record(reg, snk, id, step_name, status) ==
    LET r == entry_or_insert(reg, id) IN
    IF step_name \in DOMAIN r[id]
    THEN LET rec == stopped_record(r[id][step_name], status) IN
         [registry |-> insert_record(r, id, step_name, rec), sink |-> snk (+) SetToBag({rec})]
    ELSE [registry |-> r, sink |-> snk]

\* StdMetricsRegistry::record_is_stopped: the value returned
record_is_stopped(reg, id, step_name) ==
    /\ id \in DOMAIN reg
    /\ step_name \in DOMAIN reg[id]
    /\ IsSome(reg[id][step_name].duration)

\* A variant of get_records without the filter on duration.
get_all_records(reg, id) ==
    IF id \in DOMAIN reg
    THEN {reg[id][s] : s \in DOMAIN reg[id]}
    ELSE {}

\* StdMetricsRegistry::get_records: the records returned (a Vec in hash order)
get_records(reg, id) ==
    IF id \in DOMAIN reg
    THEN {reg[id][s] : s \in {x \in DOMAIN reg[id] : IsSome(reg[id][x].duration)}}
    ELSE {}

\* A variant of the drop that never goes on to stop.
drop_never_stops(reg, id, step_name) == FALSE

\* Drop for StepRecordHandle, first half: whether the drop goes on to stop
drop_must_stop(reg, id, step_name) == ~record_is_stopped(reg, id, step_name)

\* a path that holds no handle, and the history of a handle just created
NoHandle == [id |-> 0, name |-> "", pc |-> "idle"]
NoHistory ==
    [explicit |-> None, cleared |-> FALSE, restarted |-> FALSE, overwritten |-> FALSE]

RegistryIdle ==
    /\ registry = EmptyMap
    /\ sink = EmptyBag
    /\ handles = [p \in Paths |-> NoHandle]
    /\ history = [p \in Paths |-> NoHistory]

(***************************************************************************)
(* EKS::upgrade_with_status                                                *)
(***************************************************************************)
\* Longest Deployment list and longest StatefulSet list explored.
MaxDeployments == 1
MaxStatefulsets == 1

\* Option<KubernetesNodesType>
RequiredUpgradeOn == {None, Some("Masters"), Some("Workers")}

\* kubernetes_upgrade_status.requested_version and .deployed_masters_version
requested_version == "requested_version"
deployed_masters_version == "deployed_masters_version"

\* DeploymentStatus: replicas and ready_replicas are Option<i32>; a Deployment
\* may have no status. Ready replicas never exceed replicas.
DeploymentSnapshots ==
    {[status |-> None]}
    \cup {[status |-> Some([replicas |-> r, ready_replicas |-> rr])] :
            r \in {None, Some(0)}, rr \in {None, Some(0)}}
    \cup {[status |-> Some([replicas |-> Some(1), ready_replicas |-> rr])] :
            rr \in {None, Some(0), Some(1)}}

\* StatefulSetStatus: replicas is an i32, ready_replicas an Option<i32>
StatefulsetSnapshots ==
    {[status |-> None]}
    \cup {[status |-> Some([replicas |-> 0, ready_replicas |-> rr])] : rr \in {None, Some(0)}}
    \cup {[status |-> Some([replicas |-> 1, ready_replicas |-> rr])] :
            rr \in {None, Some(0), Some(1)}}

SeqsUpTo(S, n) == UNION {[1..m -> S] : m \in 0..n}

\* Option::unwrap_or
unwrap_or(o, d) == IF IsSome(o) THEN Unwrap(o) ELSE d

\* A variant of the test that looks at replicas only.
deployment_has_replicas(status) == unwrap_or(status.replicas, 0) > 0

\* the test of the Deployment loop on a Deployment that has a status
deployment_has_issue(status) ==
    LET replicas == unwrap_or(status.replicas, 0)
        ready_replicas == unwrap_or(status.ready_replicas, 0)
    IN replicas > 0 /\ ready_replicas = 0

\* the test of the StatefulSet loop on a StatefulSet that has a status
statefulset_has_issue(status) ==
    LET ready_replicas == unwrap_or(status.ready_replicas, 0)
    IN status.replicas > 0 /\ ready_replicas = 0

\* what kubernetes::tera_context leaves in the three keys the routine inserts later
TeraContext ==
    [kubernetes_master_version |-> "tera_context", eks_workers_version |-> "tera_context",
     enable_cluster_autoscaler |-> "tera_context"]

\* *AWS_EKS_DEFAULT_UPGRADE_TIMEOUT_DURATION
AWS_EKS_DEFAULT_UPGRADE_TIMEOUT_DURATION == "AWS_EKS_DEFAULT_UPGRADE_TIMEOUT_DURATION"
\* the pod list kube_client.get_pods(.., SelectK8sResourceBy::All) returns when
\* it returns one: the routine is explored with a cluster that runs pods
PodLists == {<<"pod">>}
\* define_cluster_upgrade_timeout(pods_list, Upgrade(None)): the duration of the
\* disruption-budget heuristic over the pods, the fixed default duration when
\* there is no pod to look at
define_cluster_upgrade_timeout(pods_list) ==
    IF pods_list = <<>> THEN AWS_EKS_DEFAULT_UPGRADE_TIMEOUT_DURATION
    ELSE "disruption_budget_heuristic"

\* outcomes of EKS::set_cluster_autoscaler_replicas: get_kubeconfig_file fails,
\* kubectl_exec_scale_replicas fails, or both succeed
ScaleOutcomes == {"kubeconfig_error", "scale_error", "ok"}

\* EKS::set_cluster_autoscaler_replicas(replicas_count) with the given outcome:
\* the calls issued (kubectl_exec_scale_replicas with what it returned), the
\* replicas of the autoscaler afterwards, the Result
set_cluster_autoscaler_replicas(replicas_count, outcome) ==
    [calls |->
        IF outcome = "kubeconfig_error"
        THEN calls \o << <<"set_cluster_autoscaler_replicas", replicas_count>> >>
        ELSE calls \o << <<"set_cluster_autoscaler_replicas", replicas_count>>,
                         <<"kubectl_exec_scale_replicas", replicas_count,
                           IF outcome = "ok" THEN "Ok" ELSE "Err">> >>,
     replicas |-> IF outcome = "ok" THEN replicas_count ELSE autoscaler_replicas,
     result |-> CASE outcome = "ok" -> Ok("unit")
                  [] outcome = "kubeconfig_error" -> Err("kubeconfig")
                  [] outcome = "scale_error" -> Err("k8s_scale_replicas")]

\* the error kind of an EngineError, by the constructor that made it; an error
\* of a collaborator keeps the name it has here
ErrorKind(e) ==
    CASE e.err = "terraform" -> "IaCApplyFailed"
      [] e.err = "k8s_node_not_ready" -> "NodeNotReadyAfterUpgrade"
      [] e.err = "k8s_scale_replicas" -> "WorkloadScaleFailed"
      [] OTHER -> e.err

UpgradeIdle ==
    /\ required_upgrade_on = None
    /\ deployments = <<>>
    /\ statefulsets = <<>>
    /\ autoscaler_replicas = 1
    /\ replicas_before = 1
    /\ pc = "idle"
    /\ idx = 0
    /\ guard_armed = FALSE
    /\ context = TeraContext
    /\ calls = <<>>
    /\ upgrade_result = None
    /\ cluster_upgrade_timeout_in_min = AWS_EKS_DEFAULT_UPGRADE_TIMEOUT_DURATION

(***************************************************************************)
(* delete_eks_nodegroups                                                   *)
(***************************************************************************)
MaxDescribed == 2

\* NodeGroupsDeletionType
NodeGroupsDeletionType == {"All", "FailedOnly"}

cluster_name == "cluster_name"

\* the name of the node group at position i of the cluster's list
NodegroupName(i) == ToString(i)

\* DescribeNodegroupOutput at position i as describe_nodegroups returns it:
\* nodegroup() may be None, and so may nodegroup_name() and status()
DescribedNodegroup(i) ==
    {[nodegroup |-> None]}
    \cup {[nodegroup |-> Some([nodegroup_name |-> nm, status |-> st])] :
            nm \in {None, Some(NodegroupName(i))},
            st \in {None} \cup {Some(x) : x \in NodegroupStatus}}

DescribedLists ==
    UNION {{l \in [1..n -> UNION {DescribedNodegroup(i) : i \in 1..n}] :
                \A i \in 1..n : l[i] \in DescribedNodegroup(i)} : n \in 0..MaxDescribed}

\* lists one longer of node groups that all carry their name, drawn by status
\* alone: room for two failed node groups around a healthy one
StatusesByHealth == {"Active", "Creating", "CreateFailed", "Degraded"}
DescribedByStatus ==
    {l \in [1..(MaxDescribed + 1) -> UNION {DescribedNodegroup(i) : i \in 1..(MaxDescribed + 1)}] :
        \A i \in 1..(MaxDescribed + 1) :
            \E st \in StatusesByHealth :
                l[i] = [nodegroup |-> Some([nodegroup_name |-> Some(NodegroupName(i)),
                                            status |-> Some(st)])]}

\* what aws_conn.list_clusters() may return: an error, or the names of clusters
ClusterListings == {Err("list_clusters")} \cup {Ok(c) : c \in SUBSET {cluster_name, "other_cluster"}}

\* an EngineError of delete_eks_nodegroups: the constructor that made it and
\* the node group name handed to it, if any
EngineError(constructor, name) == [constructor |-> constructor, nodegroup_name |-> name]

DeleteIdle ==
    /\ is_first_install = FALSE
    /\ nodegroup_delete_selection = "All"
    /\ all_cluster_nodegroups_described = <<>>
    /\ cluster_nodegroups = {}
    /\ nodegroups_to_delete = <<>>
    /\ delete_pc = "idle"
    /\ delete_idx = 0
    /\ aws_calls = <<>>
    /\ delete_result = None

(***************************************************************************)
(* ScwNodeGroup::new                                                       *)
(***************************************************************************)
\* the i32 values min_nodes and max_nodes are explored with; nothing keeps a
\* caller from passing a negative number
NodeBounds == (-1)..MaxNodes

\* the arguments of ScwNodeGroup::new that differ between the calls explored
ScwArgs ==
    [id : {None, Some("id")}, min_nodes : NodeBounds, max_nodes : NodeBounds,
     instance_type : {"dev1-l", "t1000.terminator"}]

\* A variant of the constructor that also refuses min_nodes == max_nodes.
ScwNodeGroup_new_strict(args) ==
    IF args.min_nodes >= args.max_nodes
    THEN Err("CommandError")
    ELSE Ok([name |-> "group_name", id |-> args.id, min_nodes |-> args.min_nodes,
             max_nodes |-> args.max_nodes, instance_type |-> args.instance_type])

\* ScwNodeGroup::new
ScwNodeGroup_new(args) ==
    IF args.min_nodes > args.max_nodes
    THEN Err("CommandError")
    ELSE Ok([name |-> "group_name", id |-> args.id, min_nodes |-> args.min_nodes,
             max_nodes |-> args.max_nodes, instance_type |-> args.instance_type])

ScwIdle ==
    /\ scw_args = [id |-> None, min_nodes |-> 0, max_nodes |-> 0, instance_type |-> "dev1-l"]
    /\ scw_node_group = None

(***************************************************************************)
(* EKS::new, EKS::validate_node_groups and the lifecycle calls             *)
(***************************************************************************)
MaxNodeGroups == 2
MaxLifecycleCalls == 2

\* the instance types of test_allowed_eks_nodes: the names from_str parses, and
\* among them those is_instance_cluster_allowed accepts
KnownInstanceTypes ==
    {"t3.medium", "t3a.medium", "t3.large", "t3a.large", "t3.small", "t3a.small"}
ClusterAllowedInstanceTypes == {"t3.medium", "t3a.medium", "t3.large", "t3a.large"}
InstanceTypeNames == KnownInstanceTypes \cup {"t1000.terminator"}

\* AwsInstancesType::from_str
AwsInstancesType_from_str(name) ==
    IF name \in KnownInstanceTypes THEN Ok(name) ELSE Err("not supported")

\* EKS::is_instance_allowed
is_instance_allowed(instance_type) == instance_type \in ClusterAllowedInstanceTypes

\* A variant of the loop of validate_node_groups that lets a known type through
\* without asking whether it is allowed.
RECURSIVE validate_known_only(_, _)
validate_known_only(groups, i) ==
    IF i > Len(groups) THEN Ok("unit")
    ELSE LET parsed == AwsInstancesType_from_str(groups[i]) IN
         IF parsed.ok
         THEN validate_known_only(groups, i + 1)
         ELSE Err([tag |-> "UnsupportedInstanceType", instance_type |-> groups[i]])

\* the for loop of EKS::validate_node_groups from position i on
RECURSIVE validate_from(_, _)
validate_from(groups, i) ==
    IF i > Len(groups) THEN Ok("unit")
    ELSE LET parsed == AwsInstancesType_from_str(groups[i]) IN
         IF parsed.ok
         THEN IF ~is_instance_allowed(parsed.value)
              THEN Err([tag |-> "NotAllowedInstanceType", instance_type |-> groups[i]])
              ELSE validate_from(groups, i + 1)
         ELSE Err([tag |-> "UnsupportedInstanceType", instance_type |-> groups[i]])

\* EKS::validate_node_groups
validate_node_groups(groups) == validate_from(groups, 1)

\* the lifecycle calls of the claim, and a cluster object on which none runs
LifecycleActions == {"on_create", "on_pause", "on_upgrade", "on_delete"}
NoLifecycle == [action |-> "", pc |-> "idle", result |-> None]
\* self.long_id, the id of the cluster's records
long_id == 1

EksIdle ==
    /\ nodes_groups = <<>>
    /\ new_pc = "idle"
    /\ eks = None
    /\ new_result = None
    /\ lifecycle = NoLifecycle
    /\ lifecycle_calls = <<>>

(***************************************************************************)
(* The mutex of StdMetricsRegistry                                         *)
(***************************************************************************)
\* Calls of the registry each path makes at most.
MaxOps == 2

\* the calls that take registry.lock(): the five methods of StdMetricsRegistry
\* and the drop of a handle (is_stopped(), then stop(NotSet))
RegistryCalls ==
    {"start_record", "stop_record", "record_is_stopped", "get_records", "clear", "drop"}
NoCall == [kind |-> "", pc |-> "idle"]

LockIdle ==
    /\ mutex = 0
    /\ op = [p \in Paths |-> NoCall]
    /\ ops_done = [p \in Paths |-> 0]

InitReconciler ==
    /\ action \in KubernetesClusterAction
    /\ nodegroup \in ValidNodeGroups
    /\ desired_state = None
    /\ RemovalIdle
    /\ RegistryIdle
    /\ UpgradeIdle
    /\ DeleteIdle
    /\ ScwIdle
    /\ EksIdle
    /\ LockIdle

\* one call of select_nodegroups_autoscaling_group_behavior(action, &nodegroup)
SelectBehavior ==
    /\ desired_state = None
    /\ desired_state' = Some(select_nodegroups_autoscaling_group_behavior(action, nodegroup))
    /\ UNCHANGED <<action, nodegroup, notReconcilerVars>>

NextReconciler == SelectBehavior

SpecReconciler == InitReconciler /\ [][NextReconciler]_vars

InitRemoval ==
    /\ nodegroups \in NodegroupLists
    /\ to_remove = None
    /\ ReconcilerIdle
    /\ RegistryIdle
    /\ UpgradeIdle
    /\ DeleteIdle
    /\ ScwIdle
    /\ EksIdle
    /\ LockIdle

\* one call of check_failed_nodegroups_to_remove(nodegroups)
CheckFailedNodegroups ==
    /\ to_remove = None
    /\ to_remove' = Some(check_failed_nodegroups_to_remove(nodegroups))
    /\ UNCHANGED <<nodegroups, notRemovalVars>>

NextRemoval == CheckFailedNodegroups

SpecRemoval == InitRemoval /\ [][NextRemoval]_vars

InitRegistry ==
    /\ RegistryIdle
    /\ ReconcilerIdle
    /\ RemovalIdle
    /\ UpgradeIdle
    /\ DeleteIdle
    /\ ScwIdle
    /\ EksIdle
    /\ LockIdle

HandleKey(h) == <<handles[h].id, handles[h].name>>
Live(h) == handles[h].pc \in {"held", "stopping"}
\* the paths other than h with a live handle on the key (id, step_name)
OthersOn(h, id, step_name) ==
    {g \in Paths : g # h /\ Live(g) /\ HandleKey(g) = <<id, step_name>>}

\* room left in the sink once every live handle has been dropped
SinkHasRoom == BagCardinality(sink) + Cardinality({g \in Paths : Live(g)}) < MaxSent

\* history after an explicit stop(status) for (id, step_name): the paths holding a
\* handle on that key remember the status
NoteExplicit(id, step_name, status) ==
    [g \in Paths |->
        IF HandleKey(g) = <<id, step_name>> /\ handles[g].pc = "held"
        THEN [history[g] EXCEPT !.explicit = Some(status)]
        ELSE history[g]]

\* history after path h started a record for (id, step_name): the other live
\* handles of that key had their record replaced
NoteRestart(h, id, step_name) ==
    [g \in Paths |->
        IF g \in OthersOn(h, id, step_name)
        THEN [history[g] EXCEPT !.restarted = TRUE]
        ELSE history[g]]

\* history after the drop of path h's handle stopped the record of (id, step_name):
\* the other live handles of that key had their record finalized by that drop
NoteOverwrite(h, id, step_name) ==
    [g \in Paths |->
        IF g \in OthersOn(h, id, step_name)
        THEN [history[g] EXCEPT !.overwritten = TRUE]
        ELSE history[g]]

\* path h: let handle = metrics_registry.start_record(id, label, step_name)
StartRecord(h, id, label, step_name) ==
    /\ handles[h].pc = "idle"
    /\ SinkHasRoom
    /\ registry' = start_record(registry, id, label, step_name)
    /\ handles' = [handles EXCEPT ![h] = [id |-> id, name |-> step_name, pc |-> "held"]]
    /\ history' = [NoteRestart(h, id, step_name) EXCEPT ![h] = NoHistory]
    /\ UNCHANGED <<sink, notRegistryVars>>

\* path h: handle.stop(status)
HandleStop(h, status) ==
    /\ handles[h].pc = "held"
    /\ SinkHasRoom
    /\ LET r == stop_record(registry, sink, handles[h].id, handles[h].name, status) IN
        /\ registry' = r.registry
        /\ sink' = r.sink
    /\ history' = NoteExplicit(handles[h].id, handles[h].name, status)
    /\ UNCHANGED <<handles, notRegistryVars>>

\* any path: metrics_registry.stop_record(id, step_name, status)
StopRecord(id, step_name, status) ==
    /\ SinkHasRoom
    /\ LET r == stop_record(registry, sink, id, step_name, status) IN
        /\ registry' = r.registry
        /\ sink' = r.sink
    /\ history' = NoteExplicit(id, step_name, status)
    /\ UNCHANGED <<handles, notRegistryVars>>

\* any path: metrics_registry.record_is_stopped(id, step_name), handle.is_stopped()
RecordIsStopped(id) ==
    /\ registry' = entry_or_insert(registry, id)
    /\ UNCHANGED <<sink, handles, history, notRegistryVars>>

\* any path: metrics_registry.get_records(id)
GetRecords(id) ==
    /\ registry' = entry_or_insert(registry, id)
    /\ UNCHANGED <<sink, handles, history, notRegistryVars>>

\* A variant of clear that removes the unfinished records only.
ClearKeepingFinished ==
    /\ registry' = [id \in DOMAIN registry |->
                        [step_name \in {x \in DOMAIN registry[id] : IsSome(registry[id][x].duration)}
                            |-> registry[id][step_name]]]
    /\ history' = [g \in Paths |->
                      IF Live(g) THEN [history[g] EXCEPT !.cleared = TRUE] ELSE history[g]]
    /\ UNCHANGED <<sink, handles, notRegistryVars>>

\* any path: metrics_registry.clear()
Clear ==
    /\ registry' = EmptyMap
    /\ history' = [g \in Paths |->
                      IF Live(g) THEN [history[g] EXCEPT !.cleared = TRUE] ELSE history[g]]
    /\ UNCHANGED <<sink, handles, notRegistryVars>>

\* path h: drop(handle), first call: is_stopped() under the registry lock; a
\* stopped record ends the drop
DropCheck(h) ==
    /\ handles[h].pc = "held"
    /\ registry' = entry_or_insert(registry, handles[h].id)
    /\ IF drop_must_stop(registry, handles[h].id, handles[h].name)
       THEN /\ handles' = [handles EXCEPT ![h].pc = "stopping"]
            /\ history' = history
       ELSE /\ handles' = [handles EXCEPT ![h] = NoHandle]
            /\ history' = [history EXCEPT ![h] = NoHistory]
    /\ UNCHANGED <<sink, notRegistryVars>>

\* path h: drop(handle), second call: stop(StepStatus::NotSet) under the registry lock
DropStop(h) ==
    /\ handles[h].pc = "stopping"
    /\ LET r == stop_record(registry, sink, handles[h].id, handles[h].name, "NotSet") IN
        /\ registry' = r.registry
        /\ sink' = r.sink
    /\ handles' = [handles EXCEPT ![h] = NoHandle]
    /\ history' = [NoteOverwrite(h, handles[h].id, handles[h].name) EXCEPT ![h] = NoHistory]
    /\ UNCHANGED notRegistryVars

NextRegistry ==
    \/ \E h \in Paths, k \in Keys : StartRecord(h, k[1], LabelOf(k[1]), k[2])
    \/ \E h \in Paths, status \in StoppedWith : HandleStop(h, status)
    \/ \E k \in Keys, status \in StoppedWith : StopRecord(k[1], k[2], status)
    \/ \E id \in Ids : RecordIsStopped(id)
    \/ \E id \in Ids : GetRecords(id)
    \/ Clear
    \/ \E h \in Paths : DropCheck(h)
    \/ \E h \in Paths : DropStop(h)

SpecRegistry == InitRegistry /\ [][NextRegistry]_vars

InitUpgrade ==
    /\ required_upgrade_on \in RequiredUpgradeOn
    /\ deployments \in SeqsUpTo(DeploymentSnapshots, MaxDeployments)
    /\ statefulsets \in SeqsUpTo(StatefulsetSnapshots, MaxStatefulsets)
    /\ autoscaler_replicas \in {0, 1}
    /\ replicas_before = autoscaler_replicas
    /\ pc = "get_temp_dir"
    /\ idx = 0
    /\ guard_armed = FALSE
    /\ context = TeraContext
    /\ calls = <<>>
    /\ upgrade_result = None
    /\ cluster_upgrade_timeout_in_min = AWS_EKS_DEFAULT_UPGRADE_TIMEOUT_DURATION
    /\ ReconcilerIdle
    /\ RemovalIdle
    /\ RegistryIdle
    /\ DeleteIdle
    /\ ScwIdle
    /\ EksIdle
    /\ LockIdle

upgradeInputs == <<required_upgrade_on, deployments, statefulsets, replicas_before>>
timeoutVar == <<cluster_upgrade_timeout_in_min>>

\* A variant of leaving the routine in which no scope guard runs.
ReturnWithoutGuard(r) ==
    /\ upgrade_result' = Some(r)
    /\ pc' = "returned"

\* what an external call logged in calls returned
Returns(ok) == IF ok THEN "Ok" ELSE "Err"

\* A variant of leaving the routine in which the restoration of the autoscaler
\* runs whether or not the guard was created.
ReturnThroughGuard(r) ==
    /\ upgrade_result' = Some(r)
    /\ pc' = "guard"

\* return r: the scope guard, once created, runs before the caller gets r
Return(r) ==
    /\ upgrade_result' = Some(r)
    /\ pc' = IF guard_armed THEN "guard" ELSE "returned"

Goto(next) ==
    /\ pc' = next
    /\ upgrade_result' = upgrade_result

\* a fallible step with no modelled effect: ? on its error, else on to next
Fallible(error, next) ==
    /\ \E ok \in BOOLEAN : IF ok THEN Goto(next) ELSE Return(Err(error))
    /\ UNCHANGED <<upgradeInputs, autoscaler_replicas, idx, guard_armed, context, calls, timeoutVar, notUpgradeVars>>

\* let temp_dir = self.get_temp_dir(event_details.clone())?
GetTempDir ==
    /\ pc = "get_temp_dir"
    /\ Fallible("temp_dir", "should_update_desired_nodes")

\* should_update_desired_nodes(.., KubernetesClusterAction::Upgrade(None), ..)?
ShouldUpdateDesiredNodes ==
    /\ pc = "should_update_desired_nodes"
    /\ Fallible("desired_nodes", "upgrade_timeout")

\* A variant of the timeout step in which a failed listing of the pods is
\* returned (get_pods(..)? in place of unwrap_or_else).
ComputeUpgradeTimeoutOrFail ==
    /\ pc = "upgrade_timeout"
    /\ \E kube_client \in BOOLEAN, listing \in {Err("get_pods")} \cup {Ok(l) : l \in PodLists} :
        /\ cluster_upgrade_timeout_in_min' =
            IF ~kube_client \/ ~listing.ok THEN AWS_EKS_DEFAULT_UPGRADE_TIMEOUT_DURATION
            ELSE define_cluster_upgrade_timeout(listing.value)
        /\ calls' = IF ~kube_client THEN calls
                    ELSE Append(calls, <<"get_pods", 0, Returns(listing.ok)>>)
        /\ IF kube_client /\ ~listing.ok THEN Return(Err("get_pods")) ELSE Goto("tera_context")
    /\ UNCHANGED <<upgradeInputs, autoscaler_replicas, idx, guard_armed, context,
                   notUpgradeVars>>

\* cluster_upgrade_timeout_in_min: the default, unless q_kube_client() is Ok; then
\* define_cluster_upgrade_timeout of the pods listed, or of no pod when the
\* listing fails (unwrap_or_else)
ComputeUpgradeTimeout ==
    /\ pc = "upgrade_timeout"
    /\ \E kube_client \in BOOLEAN, listing \in {Err("get_pods")} \cup {Ok(l) : l \in PodLists} :
        /\ cluster_upgrade_timeout_in_min' =
            IF ~kube_client THEN AWS_EKS_DEFAULT_UPGRADE_TIMEOUT_DURATION
            ELSE define_cluster_upgrade_timeout(IF listing.ok THEN listing.value ELSE <<>>)
        /\ calls' = IF ~kube_client THEN calls
                    ELSE Append(calls, <<"get_pods", 0, Returns(listing.ok)>>)
    /\ Goto("tera_context")
    /\ UNCHANGED <<upgradeInputs, autoscaler_replicas, idx, guard_armed, context,
                   notUpgradeVars>>

\* kubernetes::tera_context(..)?, after the upgrade timeout was computed
BuildTeraContext ==
    /\ pc = "tera_context"
    /\ Fallible("tera_context", "match_required_upgrade_on")

\* A variant of the match whose None arm goes on to the worker phase.
MatchWithoutShortCircuit ==
    /\ pc = "match_required_upgrade_on"
    /\ IF required_upgrade_on = Some("Masters")
       THEN /\ context' = [context EXCEPT !.kubernetes_master_version = requested_version,
                                           !.eks_workers_version = deployed_masters_version]
            /\ Goto("masters_templates")
       ELSE /\ context' = context
            /\ Goto("workers_context")
    /\ UNCHANGED <<upgradeInputs, autoscaler_replicas, idx, guard_armed, calls, timeoutVar, notUpgradeVars>>

\* A variant of the match whose Masters arm renders the workers with the
\* requested version as well.
MatchUpgradingBothTiers ==
    /\ pc = "match_required_upgrade_on"
    /\ IF required_upgrade_on = Some("Masters")
       THEN /\ context' = [context EXCEPT !.kubernetes_master_version = requested_version,
                                           !.eks_workers_version = requested_version]
            /\ Goto("masters_templates")
       ELSE IF required_upgrade_on = Some("Workers")
       THEN /\ context' = context
            /\ Goto("workers_context")
       ELSE /\ context' = context
            /\ Return(Ok("unit"))
    /\ UNCHANGED <<upgradeInputs, autoscaler_replicas, idx, guard_armed, calls, timeoutVar, notUpgradeVars>>

\* match &kubernetes_upgrade_status.required_upgrade_on
MatchRequiredUpgradeOn ==
    /\ pc = "match_required_upgrade_on"
    /\ IF required_upgrade_on = Some("Masters")
       THEN /\ context' = [context EXCEPT !.kubernetes_master_version = requested_version,
                                           !.eks_workers_version = deployed_masters_version]
            /\ Goto("masters_templates")
       ELSE IF required_upgrade_on = Some("Workers")
       THEN /\ context' = context
            /\ Goto("workers_context")
       ELSE /\ context' = context
            /\ Return(Ok("unit"))
    /\ UNCHANGED <<upgradeInputs, autoscaler_replicas, idx, guard_armed, calls, timeoutVar, notUpgradeVars>>

\* generate_and_copy_all_files_into_dir and copy_non_template_files, masters
MastersTemplates ==
    /\ pc = "masters_templates"
    /\ Fallible("cannot_copy_files", "masters_apply")

\* A variant of the masters' apply that goes on to the worker phase whatever
\* the apply returned.
MastersApplyGoingOn ==
    /\ pc = "masters_apply"
    /\ \E ok \in BOOLEAN :
        /\ calls' = Append(calls, <<"terraform_init_validate_plan_apply", context, Returns(ok)>>)
        /\ Goto("workers_context")
    /\ UNCHANGED <<upgradeInputs, autoscaler_replicas, idx, guard_armed, context, timeoutVar, notUpgradeVars>>

\* terraform_init_validate_plan_apply for the masters
MastersApply ==
    /\ pc = "masters_apply"
    /\ \E ok \in BOOLEAN :
        /\ calls' = Append(calls, <<"terraform_init_validate_plan_apply", context, Returns(ok)>>)
        /\ IF ok THEN Goto("workers_context") ELSE Return(Err("terraform"))
    /\ UNCHANGED <<upgradeInputs, autoscaler_replicas, idx, guard_armed, context, timeoutVar, notUpgradeVars>>

\* A variant of the workers' context that leaves enable_cluster_autoscaler as
\* tera_context set it.
WorkersContextKeepingAutoscaler ==
    /\ pc = "workers_context"
    /\ context' = [context EXCEPT !.eks_workers_version = requested_version]
    /\ \E ok \in BOOLEAN : IF ok THEN Goto("q_kube_client") ELSE Return(Err("cannot_copy_files"))
    /\ UNCHANGED <<upgradeInputs, autoscaler_replicas, idx, guard_armed, calls, timeoutVar, notUpgradeVars>>

\* context.insert("enable_cluster_autoscaler", &false), the workers version, and
\* the two template copies for the workers
WorkersContext ==
    /\ pc = "workers_context"
    /\ context' = [context EXCEPT !.enable_cluster_autoscaler = FALSE,
                                   !.eks_workers_version = requested_version]
    /\ \E ok \in BOOLEAN : IF ok THEN Goto("q_kube_client") ELSE Return(Err("cannot_copy_files"))
    /\ UNCHANGED <<upgradeInputs, autoscaler_replicas, idx, guard_armed, calls, timeoutVar, notUpgradeVars>>

\* let kube_client = self.q_kube_client()?
QKubeClient ==
    /\ pc = "q_kube_client"
    /\ Fallible("kube_client", "get_deployments")

\* block_on(kube_client.get_deployments(..))?
GetDeployments ==
    /\ pc = "get_deployments"
    /\ \E ok \in BOOLEAN :
        /\ calls' = Append(calls, <<"get_deployments", 0, Returns(ok)>>)
        /\ IF ok THEN Goto("deployments") /\ idx' = 1
           ELSE Return(Err("k8s_get_deployments")) /\ idx' = idx
    /\ UNCHANGED <<upgradeInputs, autoscaler_replicas, guard_armed, context, timeoutVar, notUpgradeVars>>

\* one iteration of for deploy in deployments, or the end of the loop
DeploymentLoop ==
    /\ pc = "deployments"
    /\ IF idx > Len(deployments)
       THEN Goto("get_statefulsets") /\ UNCHANGED <<idx, calls>>
       ELSE LET deploy == deployments[idx] IN
            IF IsSome(deploy.status) /\ deployment_has_issue(Unwrap(deploy.status))
            THEN \E ok \in BOOLEAN :
                     /\ calls' = Append(calls, <<"set_deployment_replicas_number", idx, Returns(ok)>>)
                     /\ IF ok THEN Goto("deployments") /\ idx' = idx + 1
                        ELSE Return(Err("k8s_scale_replicas")) /\ idx' = idx
            ELSE Goto("deployments") /\ idx' = idx + 1 /\ calls' = calls
    /\ UNCHANGED <<upgradeInputs, autoscaler_replicas, guard_armed, context, timeoutVar, notUpgradeVars>>

\* block_on(kube_client.get_statefulsets(..))?
GetStatefulsets ==
    /\ pc = "get_statefulsets"
    /\ \E ok \in BOOLEAN :
        /\ calls' = Append(calls, <<"get_statefulsets", 0, Returns(ok)>>)
        /\ IF ok THEN Goto("statefulsets") /\ idx' = 1
           ELSE Return(Err("k8s_get_statefulsets")) /\ idx' = idx
    /\ UNCHANGED <<upgradeInputs, autoscaler_replicas, guard_armed, context, timeoutVar, notUpgradeVars>>

\* one iteration of for sts in statefulsets, or the end of the loop
StatefulsetLoop ==
    /\ pc = "statefulsets"
    /\ IF idx > Len(statefulsets)
       THEN Goto("delete_crashlooping_pods") /\ UNCHANGED <<idx, calls>>
       ELSE LET sts == statefulsets[idx] IN
            IF IsSome(sts.status) /\ statefulset_has_issue(Unwrap(sts.status))
            THEN \E ok \in BOOLEAN :
                     /\ calls' = Append(calls, <<"set_statefulset_replicas_number", idx, Returns(ok)>>)
                     /\ IF ok THEN Goto("statefulsets") /\ idx' = idx + 1
                        ELSE Return(Err("k8s_scale_replicas")) /\ idx' = idx
            ELSE Goto("statefulsets") /\ idx' = idx + 1 /\ calls' = calls
    /\ UNCHANGED <<upgradeInputs, autoscaler_replicas, guard_armed, context, timeoutVar, notUpgradeVars>>

\* self.delete_crashlooping_pods(None, None, Some(3), ..)
DeleteCrashloopingPods ==
    /\ pc = "delete_crashlooping_pods"
    /\ \E ok \in BOOLEAN :
        /\ calls' = Append(calls, <<"delete_crashlooping_pods", 3, Returns(ok)>>)
        /\ IF ok THEN Goto("delete_completed_jobs") ELSE Return(Err("k8s_delete_pods"))
    /\ UNCHANGED <<upgradeInputs, autoscaler_replicas, idx, guard_armed, context, timeoutVar, notUpgradeVars>>

\* A variant of the job cleanup that tries a second time after a first failure.
DeleteCompletedJobsRetrying ==
    /\ pc = "delete_completed_jobs"
    /\ \E ok \in BOOLEAN :
        /\ calls' = Append(calls, <<"delete_completed_jobs", 0, Returns(ok)>>)
        /\ IF ok THEN Goto("disable_autoscaler")
           ELSE IF \A i \in 1..Len(calls) : calls[i][1] # "delete_completed_jobs"
           THEN Goto("delete_completed_jobs")
           ELSE Return(Err("k8s_delete_jobs"))
    /\ UNCHANGED <<upgradeInputs, autoscaler_replicas, idx, guard_armed, context, timeoutVar, notUpgradeVars>>

\* self.delete_completed_jobs(..)
DeleteCompletedJobs ==
    /\ pc = "delete_completed_jobs"
    /\ \E ok \in BOOLEAN :
        /\ calls' = Append(calls, <<"delete_completed_jobs", 0, Returns(ok)>>)
        /\ IF ok THEN Goto("disable_autoscaler") ELSE Return(Err("k8s_delete_jobs"))
    /\ UNCHANGED <<upgradeInputs, autoscaler_replicas, idx, guard_armed, context, timeoutVar, notUpgradeVars>>

\* A variant of the suspension that goes on to the apply whatever the scale
\* request returned.
DisableAutoscalerGoingOn ==
    /\ pc = "disable_autoscaler"
    /\ \E outcome \in ScaleOutcomes :
        LET r == set_cluster_autoscaler_replicas(0, outcome) IN
        /\ calls' = r.calls
        /\ autoscaler_replicas' = r.replicas
        /\ guard_armed' = TRUE
        /\ Goto("workers_apply")
    /\ UNCHANGED <<upgradeInputs, idx, context, timeoutVar, notUpgradeVars>>

\* A variant of the suspension whose guard exists before the scale request is
\* made, so that it also runs when the request fails.
DisableAutoscalerUnderGuard ==
    /\ pc = "disable_autoscaler"
    /\ \E outcome \in ScaleOutcomes :
        LET r == set_cluster_autoscaler_replicas(0, outcome) IN
        /\ calls' = r.calls
        /\ autoscaler_replicas' = r.replicas
        /\ guard_armed' = TRUE
        /\ IF r.result.ok
           THEN Goto("workers_apply")
           ELSE upgrade_result' = Some(r.result) /\ pc' = "guard"
    /\ UNCHANGED <<upgradeInputs, idx, context, timeoutVar, notUpgradeVars>>

\* scopeguard::guard(self.set_cluster_autoscaler_replicas(event_details.clone(), 0)?, ..):
\* the guard exists only once the call has returned Ok
DisableAutoscaler ==
    /\ pc = "disable_autoscaler"
    /\ \E outcome \in ScaleOutcomes :
        LET r == set_cluster_autoscaler_replicas(0, outcome) IN
        /\ calls' = r.calls
        /\ autoscaler_replicas' = r.replicas
        /\ IF r.result.ok
           THEN guard_armed' = TRUE /\ Goto("workers_apply")
           ELSE guard_armed' = guard_armed /\ Return(r.result)
    /\ UNCHANGED <<upgradeInputs, idx, context, timeoutVar, notUpgradeVars>>

\* A variant of the workers' apply that goes on to the polling whatever the
\* apply returned.
WorkersApplyGoingOn ==
    /\ pc = "workers_apply"
    /\ \E ok \in BOOLEAN :
        /\ calls' = Append(calls, <<"terraform_init_validate_plan_apply", context, Returns(ok)>>)
        /\ Goto("check_workers")
    /\ UNCHANGED <<upgradeInputs, autoscaler_replicas, idx, guard_armed, context, timeoutVar, notUpgradeVars>>

\* terraform_init_validate_plan_apply(..).map_err(new_terraform_error)? for the workers
WorkersApply ==
    /\ pc = "workers_apply"
    /\ \E ok \in BOOLEAN :
        /\ calls' = Append(calls, <<"terraform_init_validate_plan_apply", context, Returns(ok)>>)
        /\ IF ok THEN Goto("check_workers") ELSE Return(Err("terraform"))
    /\ UNCHANGED <<upgradeInputs, autoscaler_replicas, idx, guard_armed, context, timeoutVar, notUpgradeVars>>

\* A variant of the polling that wraps its failure as the apply does.
CheckWorkersAsTerraformError ==
    /\ pc = "check_workers"
    /\ \E ok \in BOOLEAN :
        /\ calls' = Append(calls, <<"check_workers_on_upgrade", requested_version, Returns(ok)>>)
        /\ IF ok THEN Return(Ok("unit")) ELSE Return(Err("terraform"))
    /\ UNCHANGED <<upgradeInputs, autoscaler_replicas, idx, guard_armed, context, timeoutVar, notUpgradeVars>>

\* self.check_workers_on_upgrade(requested_version).map_err(new_k8s_node_not_ready)?,
\* then Ok(())
CheckWorkersOnUpgrade ==
    /\ pc = "check_workers"
    /\ \E ok \in BOOLEAN :
        /\ calls' = Append(calls, <<"check_workers_on_upgrade", requested_version, Returns(ok)>>)
        /\ IF ok THEN Return(Ok("unit")) ELSE Return(Err("k8s_node_not_ready"))
    /\ UNCHANGED <<upgradeInputs, autoscaler_replicas, idx, guard_armed, context, timeoutVar, notUpgradeVars>>

\* the closure of _guard, run when the routine leaves its scope:
\* let _ = self.set_cluster_autoscaler_replicas(ev, 1)
RunGuard ==
    /\ pc = "guard"
    /\ \E outcome \in ScaleOutcomes :
        LET r == set_cluster_autoscaler_replicas(1, outcome) IN
        /\ calls' = r.calls
        /\ autoscaler_replicas' = r.replicas
    /\ pc' = "returned"
    /\ UNCHANGED <<upgradeInputs, idx, guard_armed, context, upgrade_result, timeoutVar, notUpgradeVars>>

NextUpgrade ==
    \/ GetTempDir
    \/ ShouldUpdateDesiredNodes
    \/ ComputeUpgradeTimeout
    \/ BuildTeraContext
    \/ MatchRequiredUpgradeOn
    \/ MastersTemplates
    \/ MastersApply
    \/ WorkersContext
    \/ QKubeClient
    \/ GetDeployments
    \/ DeploymentLoop
    \/ GetStatefulsets
    \/ StatefulsetLoop
    \/ DeleteCrashloopingPods
    \/ DeleteCompletedJobs
    \/ DisableAutoscaler
    \/ WorkersApply
    \/ CheckWorkersOnUpgrade
    \/ RunGuard

SpecUpgrade == InitUpgrade /\ [][NextUpgrade]_vars

(***************************************************************************)
(* delete_eks_nodegroups, one statement at a time                          *)
(***************************************************************************)
InitDelete ==
    /\ is_first_install \in BOOLEAN
    /\ nodegroup_delete_selection \in NodeGroupsDeletionType
    /\ all_cluster_nodegroups_described \in DescribedLists \cup DescribedByStatus
    /\ cluster_nodegroups = {NodegroupName(i) : i \in 1..Len(all_cluster_nodegroups_described)}
    /\ nodegroups_to_delete = <<>>
    /\ delete_pc = "list_clusters"
    /\ delete_idx = 0
    /\ aws_calls = <<>>
    /\ delete_result = None
    /\ ReconcilerIdle
    /\ RemovalIdle
    /\ RegistryIdle
    /\ UpgradeIdle
    /\ ScwIdle
    /\ EksIdle
    /\ LockIdle

deleteInputs == <<is_first_install, nodegroup_delete_selection, all_cluster_nodegroups_described>>

DeleteReturn(r) ==
    /\ delete_result' = Some(r)
    /\ delete_pc' = "returned"

DeleteGoto(next) ==
    /\ delete_pc' = next
    /\ delete_result' = delete_result

\* aws_conn.list_clusters().await, then the search for cluster_name in it
ListClusters ==
    /\ delete_pc = "list_clusters"
    /\ \E clusters \in ClusterListings :
        /\ aws_calls' = Append(aws_calls, <<"list_clusters", cluster_name, Returns(clusters.ok)>>)
        /\ IF ~clusters.ok
           THEN DeleteReturn(Err(EngineError("cannot_list_clusters_error", None)))
           ELSE IF cluster_name \notin clusters.value
           THEN DeleteReturn(Err(EngineError("cannot_get_cluster_error", None)))
           ELSE DeleteGoto("list_all_eks_nodegroups")
    /\ UNCHANGED <<deleteInputs, cluster_nodegroups, nodegroups_to_delete, delete_idx, notDeleteVars>>

\* aws_conn.list_all_eks_nodegroups(cluster_name).await
ListAllEksNodegroups ==
    /\ delete_pc = "list_all_eks_nodegroups"
    /\ \E ok \in BOOLEAN :
        /\ aws_calls' = Append(aws_calls, <<"list_all_eks_nodegroups", cluster_name, Returns(ok)>>)
        /\ IF ok THEN DeleteGoto("describe_nodegroups")
           ELSE DeleteReturn(Err(EngineError("nodegroup_list_error", None)))
    /\ UNCHANGED <<deleteInputs, cluster_nodegroups, nodegroups_to_delete, delete_idx, notDeleteVars>>

\* aws_conn.describe_nodegroups(cluster_name, all_cluster_nodegroups).await
DescribeNodegroups ==
    /\ delete_pc = "describe_nodegroups"
    /\ \E ok \in BOOLEAN :
        /\ aws_calls' = Append(aws_calls, <<"describe_nodegroups", cluster_name, Returns(ok)>>)
        /\ IF ok THEN DeleteGoto("select")
           ELSE DeleteReturn(Err(EngineError("missing_nodegroup_information_error", None)))
    /\ UNCHANGED <<deleteInputs, cluster_nodegroups, nodegroups_to_delete, delete_idx, notDeleteVars>>

\* A variant of the selection that deletes everything only in mode All.
SelectIgnoringFirstInstall ==
    /\ delete_pc = "select"
    /\ IF nodegroup_delete_selection = "All"
       THEN /\ nodegroups_to_delete' = all_cluster_nodegroups_described
            /\ delete_idx' = 1
            /\ DeleteGoto("delete_loop")
       ELSE LET checked == check_failed_nodegroups_to_remove(all_cluster_nodegroups_described) IN
            IF checked.ok
            THEN /\ nodegroups_to_delete' = checked.value
                 /\ delete_idx' = 1
                 /\ DeleteGoto("delete_loop")
            ELSE /\ UNCHANGED <<nodegroups_to_delete, delete_idx>>
                 /\ IF checked.err = "OneNodeGroupMustBeActiveAtLeast"
                    THEN DeleteReturn(Err(EngineError("nodegroup_delete_any_nodegroup_error", None)))
                    ELSE DeleteReturn(Err(EngineError("nodegroup_delete_error", None)))
    /\ UNCHANGED <<deleteInputs, cluster_nodegroups, aws_calls, notDeleteVars>>

\* A variant of the selection that deletes everything when the check of the
\* failed node groups returns an error.
SelectDespiteError ==
    /\ delete_pc = "select"
    /\ LET checked == check_failed_nodegroups_to_remove(all_cluster_nodegroups_described) IN
       nodegroups_to_delete' =
           IF is_first_install \/ nodegroup_delete_selection = "All" \/ ~checked.ok
           THEN all_cluster_nodegroups_described
           ELSE checked.value
    /\ delete_idx' = 1
    /\ DeleteGoto("delete_loop")
    /\ UNCHANGED <<deleteInputs, cluster_nodegroups, aws_calls, notDeleteVars>>

\* let nodegroups_to_delete = if is_first_install || selection == All { .. } else { .. }
SelectNodegroupsToDelete ==
    /\ delete_pc = "select"
    /\ IF is_first_install \/ nodegroup_delete_selection = "All"
       THEN /\ nodegroups_to_delete' = all_cluster_nodegroups_described
            /\ delete_idx' = 1
            /\ DeleteGoto("delete_loop")
       ELSE LET checked == check_failed_nodegroups_to_remove(all_cluster_nodegroups_described) IN
            IF checked.ok
            THEN /\ nodegroups_to_delete' = checked.value
                 /\ delete_idx' = 1
                 /\ DeleteGoto("delete_loop")
            ELSE /\ UNCHANGED <<nodegroups_to_delete, delete_idx>>
                 /\ IF checked.err = "OneNodeGroupMustBeActiveAtLeast"
                    THEN DeleteReturn(Err(EngineError("nodegroup_delete_any_nodegroup_error", None)))
                    ELSE DeleteReturn(Err(EngineError("nodegroup_delete_error", None)))
    /\ UNCHANGED <<deleteInputs, cluster_nodegroups, aws_calls, notDeleteVars>>

\* A variant of the loop that goes on to the next node group after a failed
\* delete.
DeleteNodegroupSkippingFailures ==
    /\ delete_pc = "delete_loop"
    /\ IF delete_idx > Len(nodegroups_to_delete)
       THEN /\ DeleteReturn(Ok("unit"))
            /\ UNCHANGED <<delete_idx, aws_calls, cluster_nodegroups>>
       ELSE LET ng == nodegroups_to_delete[delete_idx] IN
            IF ~IsSome(ng.nodegroup)
            THEN /\ DeleteReturn(Err(EngineError("missing_nodegroup_information_error", None)))
                 /\ UNCHANGED <<delete_idx, aws_calls, cluster_nodegroups>>
            ELSE LET nodegroup_name ==
                         unwrap_or(Unwrap(ng.nodegroup).nodegroup_name, "unknown_nodegroup_name")
                 IN \E ok \in BOOLEAN :
                     /\ aws_calls' = Append(aws_calls,
                                            <<"delete_nodegroup", nodegroup_name, Returns(ok)>>)
                     /\ cluster_nodegroups' = IF ok THEN cluster_nodegroups \ {nodegroup_name}
                                              ELSE cluster_nodegroups
                     /\ DeleteGoto("delete_loop")
                     /\ delete_idx' = delete_idx + 1
    /\ UNCHANGED <<deleteInputs, nodegroups_to_delete, notDeleteVars>>

\* one iteration of for nodegroup in nodegroups_to_delete, or the Ok(()) after it
DeleteNodegroupLoop ==
    /\ delete_pc = "delete_loop"
    /\ IF delete_idx > Len(nodegroups_to_delete)
       THEN /\ DeleteReturn(Ok("unit"))
            /\ UNCHANGED <<delete_idx, aws_calls, cluster_nodegroups>>
       ELSE LET ng == nodegroups_to_delete[delete_idx] IN
            IF ~IsSome(ng.nodegroup)
            THEN /\ DeleteReturn(Err(EngineError("missing_nodegroup_information_error", None)))
                 /\ UNCHANGED <<delete_idx, aws_calls, cluster_nodegroups>>
            ELSE LET nodegroup_name ==
                         unwrap_or(Unwrap(ng.nodegroup).nodegroup_name, "unknown_nodegroup_name")
                 IN \E ok \in BOOLEAN :
                     /\ aws_calls' = Append(aws_calls,
                                            <<"delete_nodegroup", nodegroup_name, Returns(ok)>>)
                     /\ cluster_nodegroups' = IF ok THEN cluster_nodegroups \ {nodegroup_name}
                                              ELSE cluster_nodegroups
                     /\ IF ok
                        THEN DeleteGoto("delete_loop") /\ delete_idx' = delete_idx + 1
                        ELSE /\ DeleteReturn(Err(EngineError("nodegroup_delete_error",
                                                              Some(nodegroup_name))))
                             /\ delete_idx' = delete_idx
    /\ UNCHANGED <<deleteInputs, nodegroups_to_delete, notDeleteVars>>

NextDelete ==
    \/ ListClusters
    \/ ListAllEksNodegroups
    \/ DescribeNodegroups
    \/ SelectNodegroupsToDelete
    \/ DeleteNodegroupLoop

SpecDelete == InitDelete /\ [][NextDelete]_vars

(***************************************************************************)
(* ScwNodeGroup::new, one call                                             *)
(***************************************************************************)
InitScw ==
    /\ scw_args \in ScwArgs
    /\ scw_node_group = None
    /\ ReconcilerIdle
    /\ RemovalIdle
    /\ RegistryIdle
    /\ UpgradeIdle
    /\ DeleteIdle
    /\ EksIdle
    /\ LockIdle

\* let node_group = ScwNodeGroup::new(id, group_name, min_nodes, max_nodes, ..)
ConstructScwNodeGroup ==
    /\ scw_node_group = None
    /\ scw_node_group' = Some(ScwNodeGroup_new(scw_args))
    /\ UNCHANGED <<scw_args, notScwVars>>

NextScw == ConstructScwNodeGroup

SpecScw == InitScw /\ [][NextScw]_vars

(***************************************************************************)
(* EKS::new, one statement at a time, and the lifecycle calls after it     *)
(***************************************************************************)
InitEks ==
    /\ nodes_groups \in SeqsUpTo(InstanceTypeNames, MaxNodeGroups)
    /\ new_pc = "aws_zones"
    /\ eks = None
    /\ new_result = None
    /\ lifecycle = NoLifecycle
    /\ lifecycle_calls = <<>>
    /\ ReconcilerIdle
    /\ RemovalIdle
    /\ RegistryIdle
    /\ UpgradeIdle
    /\ DeleteIdle
    /\ ScwIdle
    /\ LockIdle

NewReturn(r) ==
    /\ new_result' = Some(r)
    /\ new_pc' = "returned"

\* let aws_zones = kubernetes::aws_zones(zones, &region, &event_details)?
NewAwsZones ==
    /\ new_pc = "aws_zones"
    /\ \E ok \in BOOLEAN :
        IF ok THEN new_pc' = "validate_node_groups" /\ new_result' = new_result
        ELSE NewReturn(Err([tag |-> "aws_zones", instance_type |-> ""]))
    /\ UNCHANGED <<nodes_groups, eks, lifecycle, lifecycle_calls, notEksVars>>

\* if let Err(e) = EKS::validate_node_groups(nodes_groups.clone(), ..) { return Err(..) }
NewValidateNodeGroups ==
    /\ new_pc = "validate_node_groups"
    /\ LET validated == validate_node_groups(nodes_groups) IN
        IF validated.ok THEN new_pc' = "advanced_settings" /\ new_result' = new_result
        ELSE NewReturn(validated)
    /\ UNCHANGED <<nodes_groups, eks, lifecycle, lifecycle_calls, notEksVars>>

\* advanced_settings.validate(event_details)?, then Ok(EKS { .. })
NewAdvancedSettings ==
    /\ new_pc = "advanced_settings"
    /\ \E ok \in BOOLEAN :
        IF ok
        THEN /\ eks' = Some([long_id |-> long_id, nodes_groups |-> nodes_groups])
             /\ NewReturn(Ok("unit"))
        ELSE /\ eks' = eks
             /\ NewReturn(Err([tag |-> "advanced_settings", instance_type |-> ""]))
    /\ UNCHANGED <<nodes_groups, lifecycle, lifecycle_calls, notEksVars>>

lifecycleFrame == <<nodes_groups, new_pc, eks, new_result, handles, history,
                    reconcilerVars, removalVars, upgradeVars, deleteVars, scwVars, lockVars>>

\* a lifecycle call on the cluster object begins: it opens the record of step
\* Total for the cluster
LifecycleOpen(a) ==
    /\ eks # None
    /\ lifecycle.pc = "idle"
    /\ Len(lifecycle_calls) < MaxLifecycleCalls
    /\ registry' = start_record(registry, Unwrap(eks).long_id, "Environment", "Total")
    /\ lifecycle' = [action |-> a, pc |-> "delegate", result |-> None]
    /\ UNCHANGED <<sink, lifecycle_calls, lifecycleFrame>>

\* the call delegates to the routine of its action, which succeeds or fails
LifecycleDelegate ==
    /\ lifecycle.pc = "delegate"
    /\ \E ok \in BOOLEAN :
        /\ lifecycle_calls' = Append(lifecycle_calls, <<lifecycle.action, Returns(ok)>>)
        /\ lifecycle' = [lifecycle EXCEPT !.pc = "stop",
                                          !.result = Some(IF ok THEN Ok("unit")
                                                          ELSE Err(lifecycle.action))]
    /\ UNCHANGED <<registry, sink, lifecycleFrame>>

\* A variant of the stop that leaves the record of a failed call to the drop of
\* its handle.
LifecycleStopOnSuccessOnly ==
    /\ lifecycle.pc = "stop"
    /\ IF Unwrap(lifecycle.result).ok
       THEN LET r == stop_record(registry, sink, Unwrap(eks).long_id, "Total", "Success") IN
            /\ registry' = r.registry
            /\ sink' = r.sink
       ELSE UNCHANGED <<registry, sink>>
    /\ lifecycle' = [lifecycle EXCEPT !.pc = "return"]
    /\ UNCHANGED <<lifecycle_calls, lifecycleFrame>>

\* the call stops the record of step Total with the status of the result
LifecycleStop ==
    /\ lifecycle.pc = "stop"
    /\ LET r == stop_record(registry, sink, Unwrap(eks).long_id, "Total",
                            IF Unwrap(lifecycle.result).ok THEN "Success" ELSE "Error") IN
        /\ registry' = r.registry
        /\ sink' = r.sink
    /\ lifecycle' = [lifecycle EXCEPT !.pc = "return"]
    /\ UNCHANGED <<lifecycle_calls, lifecycleFrame>>

\* the call returns its result; the handle of the record goes out of scope
LifecycleReturn ==
    /\ lifecycle.pc = "return"
    /\ LET id == Unwrap(eks).long_id IN
        IF drop_must_stop(registry, id, "Total")
        THEN LET r == stop_record(registry, sink, id, "Total", "NotSet") IN
             /\ registry' = r.registry
             /\ sink' = r.sink
        ELSE /\ registry' = entry_or_insert(registry, id)
             /\ sink' = sink
    /\ lifecycle' = [lifecycle EXCEPT !.pc = "idle"]
    /\ UNCHANGED <<lifecycle_calls, lifecycleFrame>>

NextEks ==
    \/ NewAwsZones
    \/ NewValidateNodeGroups
    \/ NewAdvancedSettings
    \/ \E a \in LifecycleActions : LifecycleOpen(a)
    \/ LifecycleDelegate
    \/ LifecycleStop
    \/ LifecycleReturn

SpecEks == InitEks /\ [][NextEks]_vars

InitLock ==
    /\ LockIdle
    /\ ReconcilerIdle
    /\ RemovalIdle
    /\ RegistryIdle
    /\ UpgradeIdle
    /\ DeleteIdle
    /\ ScwIdle
    /\ EksIdle

\* path p calls a method of the registry, or a handle it holds goes out of scope
Call(p, kind) ==
    /\ op[p].pc = "idle"
    /\ ops_done[p] < MaxOps
    /\ op' = [op EXCEPT ![p] = [kind |-> kind, pc |-> "lock"]]
    /\ UNCHANGED <<mutex, ops_done, notLockVars>>

\* self.registry.lock().unwrap(), the first statement of each method: the
\* path goes on once the mutex is free, and then holds it
Lock(p) ==
    /\ op[p].pc \in {"lock", "lock_stop"}
    /\ mutex = 0
    /\ mutex' = p
    /\ op' = [op EXCEPT ![p].pc = IF op[p].pc = "lock" THEN "locked" ELSE "locked_stop"]
    /\ UNCHANGED <<ops_done, notLockVars>>

\* the method returns and its MutexGuard goes out of scope; for the stop of a
\* drop this ends the drop
Unlock(p) ==
    /\ \/ op[p].pc = "locked" /\ op[p].kind # "drop"
       \/ op[p].pc = "locked_stop"
    /\ mutex' = 0
    /\ op' = [op EXCEPT ![p] = NoCall]
    /\ ops_done' = [ops_done EXCEPT ![p] = ops_done[p] + 1]
    /\ UNCHANGED notLockVars

\* A variant of the drop in which the guard taken by is_stopped() is still held
\* when stop(NotSet) asks for the mutex.
DropIsStoppedKeepingGuard(p) ==
    /\ op[p].kind = "drop"
    /\ op[p].pc = "locked"
    /\ \E stopped \in BOOLEAN :
        IF stopped
        THEN /\ mutex' = 0
             /\ op' = [op EXCEPT ![p] = NoCall]
             /\ ops_done' = [ops_done EXCEPT ![p] = ops_done[p] + 1]
        ELSE /\ mutex' = mutex
             /\ op' = [op EXCEPT ![p].pc = "lock_stop"]
             /\ ops_done' = ops_done
    /\ UNCHANGED notLockVars

\* Drop for StepRecordHandle: is_stopped() returns and releases the mutex; a
\* stopped record ends the drop, otherwise stop(NotSet) is called
DropIsStopped(p) ==
    /\ op[p].kind = "drop"
    /\ op[p].pc = "locked"
    /\ mutex' = 0
    /\ \E stopped \in BOOLEAN :
        IF stopped
        THEN /\ op' = [op EXCEPT ![p] = NoCall]
             /\ ops_done' = [ops_done EXCEPT ![p] = ops_done[p] + 1]
        ELSE /\ op' = [op EXCEPT ![p].pc = "lock_stop"]
             /\ ops_done' = ops_done
    /\ UNCHANGED notLockVars

NextLock ==
    \/ \E p \in Paths, kind \in RegistryCalls : Call(p, kind)
    \/ \E p \in Paths : Lock(p)
    \/ \E p \in Paths : Unlock(p)
    \/ \E p \in Paths : DropIsStopped(p)

SpecLock == InitLock /\ [][NextLock]_vars

\* fair scheduling: a path that can return from a method does, and a path that
\* waits for the mutex gets it if it is free again and again
FairLock ==
    \A p \in Paths :
        /\ WF_vars(Unlock(p))
        /\ WF_vars(DropIsStopped(p))
        /\ SF_vars(Lock(p))

SpecLockFair == SpecLock /\ FairLock

(***************************************************************************)
(* Properties of the node-pool reconciler, checked under SpecReconciler    *)
(***************************************************************************)
Reconciled == IsSome(desired_state)
DesiredState == Unwrap(desired_state)

\* C8: for every pool with min_nodes <= max_nodes, every action and every
\* current_nodes value (None, or any integer, below min and above max included),
\* the desired_size returned lies in [min_nodes, max_nodes].
C8_DesiredSizeInRange ==
    (Reconciled /\ nodegroup.min_nodes <= nodegroup.max_nodes)
        => /\ nodegroup.min_nodes <= DesiredState.desired_size
           /\ DesiredState.desired_size <= nodegroup.max_nodes

\* an Update whose observed count is above max_nodes has been reconciled
C8_Witness ==
    /\ Reconciled
    /\ action.kind = "Update"
    /\ IsSome(action.current_nodes)
    /\ Unwrap(action.current_nodes) > nodegroup.max_nodes
    /\ nodegroup.min_nodes < nodegroup.max_nodes

\* C9: Update(current) and Upgrade(current) return (min_nodes, true) when current
\* is Some(x) with x < min_nodes, (max_nodes, true) when x > max_nodes, (x, false)
\* otherwise, and (max_nodes, true) when current is None; the result does not
\* depend on which of the two actions it is.
C9_UpdateUpgradeTable ==
    (Reconciled /\ action.kind \in {"Update", "Upgrade"})
        => LET size == DesiredState.desired_size
               force == DesiredState.enable_desired_size
               current == action.current_nodes
           IN /\ (current = None) => (size = nodegroup.max_nodes /\ force = TRUE)
              /\ (current # None /\ current[1] < nodegroup.min_nodes)
                    => (size = nodegroup.min_nodes /\ force = TRUE)
              /\ (current # None /\ current[1] > nodegroup.max_nodes)
                    => (size = nodegroup.max_nodes /\ force = TRUE)
              /\ (current # None /\ current[1] >= nodegroup.min_nodes
                                 /\ current[1] <= nodegroup.max_nodes)
                    => (size = current[1] /\ force = FALSE)
              /\ \A other \in {"Update", "Upgrade"} :
                    select_nodegroups_autoscaling_group_behavior(
                        [kind |-> other, current_nodes |-> current], nodegroup) = DesiredState

\* an Upgrade whose observed count is strictly inside the range has been reconciled
C9_Witness ==
    /\ Reconciled
    /\ action.kind = "Upgrade"
    /\ IsSome(action.current_nodes)
    /\ nodegroup.min_nodes < Unwrap(action.current_nodes)
    /\ Unwrap(action.current_nodes) < nodegroup.max_nodes
    /\ DesiredState.enable_desired_size = FALSE

\* C10: Resume(current) always forces the desired size; the size is x clamped
\* into [min_nodes, max_nodes] when current is Some(x), and min_nodes when
\* current is None.
C10_ResumeTable ==
    (Reconciled /\ action.kind = "Resume")
        => LET size == DesiredState.desired_size
               current == action.current_nodes
           IN /\ DesiredState.enable_desired_size = TRUE
              /\ (current = None) => size = nodegroup.min_nodes
              /\ (current # None) =>
                    size = (IF current[1] < nodegroup.min_nodes THEN nodegroup.min_nodes
                            ELSE IF current[1] > nodegroup.max_nodes THEN nodegroup.max_nodes
                            ELSE current[1])

\* a Resume without an observed count has been reconciled on a pool whose
\* bounds differ
C10_Witness ==
    /\ Reconciled
    /\ action.kind = "Resume"
    /\ action.current_nodes = None
    /\ nodegroup.min_nodes < nodegroup.max_nodes
    /\ DesiredState.desired_size = nodegroup.min_nodes

\* C11: Bootstrap returns (min_nodes, true); Pause and Delete both return
\* (min_nodes, false), for every pool.
C11_BootstrapPauseDeleteTable ==
    Reconciled
        => /\ (action.kind = "Bootstrap")
                => /\ DesiredState.desired_size = nodegroup.min_nodes
                   /\ DesiredState.enable_desired_size = TRUE
           /\ (action.kind \in {"Pause", "Delete"})
                => /\ DesiredState.desired_size = nodegroup.min_nodes
                   /\ DesiredState.enable_desired_size = FALSE

\* a Pause has been reconciled on a pool whose bounds differ
C11_Witness ==
    /\ Reconciled
    /\ action.kind = "Pause"
    /\ nodegroup.min_nodes < nodegroup.max_nodes
    /\ DesiredState.desired_size = nodegroup.min_nodes
    /\ DesiredState.enable_desired_size = FALSE

(***************************************************************************)
(* Properties of the failed node-pool selection, checked under SpecRemoval *)
(***************************************************************************)
Selected == IsSome(to_remove)
Selection == Unwrap(to_remove)
HasIdentity(i) == IsSome(nodegroups[i].nodegroup)
\* pool i carries one of the three failed statuses, named here as the
\* specification names them
IsFailedPool(i) ==
    /\ HasIdentity(i)
    /\ nodegroups[i].nodegroup[1].status
            \in {Some("CreateFailed"), Some("DeleteFailed"), Some("Degraded")}
FailedPositions == {i \in 1..Len(nodegroups) : IsFailedPool(i)}

\* C6: the selection never returns Ok with every pool of a non-empty input; when
\* every pool of a non-empty input (a single pool included) has a failed status
\* it returns Err(OneNodeGroupMustBeActiveAtLeast).
C6_NeverRemovesEveryPool ==
    (Selected /\ nodegroups # <<>>)
        => /\ ~(Selection.ok /\ Len(Selection.value) = Len(nodegroups))
           /\ (FailedPositions = 1..Len(nodegroups))
                => Selection = Err("OneNodeGroupMustBeActiveAtLeast")

\* the selection ran on a single CreateFailed pool
C6_Witness ==
    /\ Selected
    /\ Len(nodegroups) = 1
    /\ IsFailedPool(1)
    /\ nodegroups[1].nodegroup[1].status = Some("CreateFailed")
    /\ ~Selection.ok

\* C7: when every pool has an identity and not all pools are failed (or the list
\* is empty), the selection returns Ok with exactly the pools whose status is
\* CreateFailed, DeleteFailed or Degraded, in input order, and nothing else.
C7_ReturnsExactlyFailedPools ==
    (/\ Selected
     /\ \A i \in 1..Len(nodegroups) : HasIdentity(i)
     /\ (nodegroups = <<>> \/ FailedPositions # 1..Len(nodegroups)))
        => /\ Selection.ok
           /\ Selection.value = SelectSeq(nodegroups,
                    LAMBDA ng : ng.nodegroup[1].status
                        \in {Some("CreateFailed"), Some("DeleteFailed"), Some("Degraded")})

\* the selection ran on three pools, a Degraded one, a healthy one and a
\* DeleteFailed one, and returned two
C7_Witness ==
    /\ Selected
    /\ Len(nodegroups) = 3
    /\ \A i \in 1..3 : HasIdentity(i)
    /\ nodegroups[1].nodegroup[1].status = Some("Degraded")
    /\ nodegroups[2].nodegroup[1].status = Some("Active")
    /\ nodegroups[3].nodegroup[1].status = Some("DeleteFailed")
    /\ Selection.ok
    /\ Len(Selection.value) = 2

\* pool i has an identity and no status
HasNoStatus(i) == HasIdentity(i) /\ nodegroups[i].nodegroup[1].status = None

\* C21: when some pool has no identity the selection returns
\* Err(NodeGroupNotFound), whatever the other pools are; when every pool has an
\* identity it never returns that error, and a pool with an identity and no
\* status makes it return Ok with no such pool among the selected.
C21_MissingStatusSkippedMissingIdentityRejected ==
    Selected
        => /\ (\E i \in 1..Len(nodegroups) : ~HasIdentity(i))
                => (~Selection.ok /\ Selection.err = "NodeGroupNotFound")
           /\ (\A i \in 1..Len(nodegroups) : HasIdentity(i))
                => /\ Selection.ok \/ Selection.err # "NodeGroupNotFound"
                   /\ (\E i \in 1..Len(nodegroups) : HasNoStatus(i))
                        => /\ Selection.ok
                           /\ \A k \in 1..Len(Selection.value) :
                                 Selection.value[k].nodegroup[1].status # None

\* the selection ran on a pool without status, a DeleteFailed pool and an entry
\* without identity, and returned the error
C21_Witness ==
    /\ Selected
    /\ Len(nodegroups) = 3
    /\ HasNoStatus(1)
    /\ IsFailedPool(2)
    /\ ~HasIdentity(3)
    /\ ~Selection.ok

\* the selection ran on a pool without status and a Degraded pool, and returned
\* the Degraded pool alone
C21_WitnessNoStatus ==
    /\ Selected
    /\ Len(nodegroups) = 2
    /\ HasNoStatus(1)
    /\ IsFailedPool(2)
    /\ Selection.ok
    /\ Len(Selection.value) = 1

\* pool i is not among the selected and has status Active
StaysActive(i) ==
    /\ HasIdentity(i)
    /\ nodegroups[i].nodegroup[1].status = Some("Active")
    /\ \A k \in 1..Len(Selection.value) : Selection.value[k] # nodegroups[i]

\* C32: when the selection returns Ok for a non-empty input, some pool that is
\* not selected has status Active.
C32_AnActivePoolRemains ==
    (Selected /\ nodegroups # <<>> /\ Selection.ok)
        => \E i \in 1..Len(nodegroups) : StaysActive(i)

(***************************************************************************)
(* Properties of ScwNodeGroup::new, checked under SpecScw                  *)
(***************************************************************************)
Constructed == scw_node_group # None
Construction == scw_node_group[1]

\* C25: the construction fails iff min_nodes > max_nodes: with min > max it
\* returns an error, which carries no node group; with min == max or min < max
\* it returns a node group with the bounds it was given.
C25_ConstructionFailsIffMinAboveMax ==
    Constructed
        => /\ ~Construction.ok <=> scw_args.min_nodes > scw_args.max_nodes
           /\ ~Construction.ok => DOMAIN Construction = {"ok", "err"}
           /\ Construction.ok
                => /\ Construction.value.min_nodes = scw_args.min_nodes
                   /\ Construction.value.max_nodes = scw_args.max_nodes

\* a construction with min_nodes == max_nodes succeeded
C25_Witness ==
    /\ Constructed
    /\ scw_args.min_nodes = 2
    /\ scw_args.max_nodes = 2
    /\ Construction.ok

(***************************************************************************)
(* Properties of EKS::new and of the lifecycle calls, checked under SpecEks *)
(***************************************************************************)
\* the groups whose instance type is not a known type allowed for clusters, the
\* first of them, and the error the claim gives for it
OffendingGroups ==
    {i \in 1..Len(nodes_groups) :
        nodes_groups[i] \notin {"t3.medium", "t3a.medium", "t3.large", "t3a.large"}}
FirstOffending == CHOOSE i \in OffendingGroups : \A j \in OffendingGroups : i <= j
ErrorOfFirstOffending ==
    [tag |-> IF nodes_groups[FirstOffending] \in {"t3.small", "t3a.small"}
             THEN "NotAllowedInstanceType" ELSE "UnsupportedInstanceType",
     instance_type |-> nodes_groups[FirstOffending]]
Validation == validate_node_groups(nodes_groups)
NewReturned == new_pc = "returned"
ZonesRefused == NewReturned /\ ~new_result[1].ok /\ new_result[1].err.tag = "aws_zones"
ValidationIsRight ==
    /\ Validation.ok <=> OffendingGroups = {}
    /\ ~Validation.ok => Validation.err = ErrorOfFirstOffending
NoClusterObject ==
    /\ eks = None
    /\ lifecycle = NoLifecycle
    /\ lifecycle_calls = <<>>

\* C26, with the condition it needs: validate_node_groups returns Ok iff every
\* group's instance type is known and allowed, and otherwise the error of the
\* first offending group (UnsupportedInstanceType for an unknown type,
\* NotAllowedInstanceType for a known one); with an offending group there is
\* never a cluster object nor a lifecycle call, and EKS::new returns that error
\* unless it has already returned the error of its zones.
C26_NodeGroupsValidatedBeforeCluster ==
    /\ ValidationIsRight
    /\ OffendingGroups # {}
          => /\ NoClusterObject
             /\ (NewReturned /\ ~ZonesRefused) => new_result = Some(Err(ErrorOfFirstOffending))
    /\ lifecycle_calls # <<>> => (eks # None /\ OffendingGroups = {})

\* C26 as stated: with an offending group EKS::new returns the error of that
\* group.
C26_AsStated ==
    /\ ValidationIsRight
    /\ OffendingGroups # {}
          => /\ NoClusterObject
             /\ NewReturned => new_result = Some(Err(ErrorOfFirstOffending))
    /\ lifecycle_calls # <<>> => (eks # None /\ OffendingGroups = {})

\* EKS::new returned NotAllowedInstanceType for the second group, the first
\* being allowed
C26_Witness ==
    /\ NewReturned
    /\ Len(nodes_groups) = 2
    /\ nodes_groups[1] = "t3.medium"
    /\ nodes_groups[2] = "t3a.small"
    /\ new_result = Some(Err([tag |-> "NotAllowedInstanceType", instance_type |-> "t3a.small"]))
    /\ eks = None

\* a lifecycle call begins, a lifecycle call returns, and the record of step
\* Total of the cluster in a registry
LifecycleBegins == lifecycle.pc = "idle" /\ lifecycle'.pc # "idle"
LifecycleReturns == lifecycle.pc # "idle" /\ lifecycle'.pc = "idle"
HasTotalRecord(reg) ==
    /\ eks # None
    /\ Unwrap(eks).long_id \in DOMAIN reg
    /\ "Total" \in DOMAIN reg[Unwrap(eks).long_id]
TotalRecord(reg) == reg[Unwrap(eks).long_id]["Total"]

SuspendedAt == {i \in 1..Len(calls) : /\ calls[i][1] = "kubectl_exec_scale_replicas"
                                       /\ calls[i][2] = 0
                                       /\ calls[i][3] = "Ok"}
RestoreRequestedAt == {i \in 1..Len(calls) : /\ calls[i][1] = "set_cluster_autoscaler_replicas"
                                              /\ calls[i][2] = 1}
Returned == pc = "returned"

\* C1: whenever the routine has scaled the autoscaler to 0 replicas, it has
\* issued a scale-to-1 request afterwards by the time it returns, whatever the
\* exit path after the suspension (worker apply Ok, worker apply Err, worker
\* polling Err).
C1_RestoreRequestedBeforeReturn ==
    Returned => \A i \in SuspendedAt : \E j \in RestoreRequestedAt : j > i

\* the routine returned the terraform error of the worker apply after having
\* suspended the autoscaler
C1_Witness ==
    /\ Returned
    /\ SuspendedAt # {}
    /\ upgrade_result = Some(Err("terraform"))
    /\ RestoreRequestedAt # {}

\* the names under which the log holds an IaC apply, a workload scale, a pod or
\* job deletion, and a scale request to the autoscaler
ApplyCalls == {"terraform_init_validate_plan_apply"}
WorkloadScaleCalls == {"set_deployment_replicas_number", "set_statefulset_replicas_number"}
CleanupCalls == {"delete_crashlooping_pods", "delete_completed_jobs"}
AutoscalerCalls == {"set_cluster_autoscaler_replicas", "kubectl_exec_scale_replicas"}
CallsNamed(names) == {i \in 1..Len(calls) : calls[i][1] \in names}
\* the errors of the steps that come before the match on required_upgrade_on
PreparationErrors == {Err("temp_dir"), Err("desired_nodes"), Err("tera_context")}

\* C12, with the condition it needs: when required_upgrade_on is None the routine
\* returns without any IaC apply, workload scale, pod or job deletion, or scale
\* request to the autoscaler; it returns Ok(()) unless one of the steps before the
\* match failed, and then it returns that step's error.
C12_NoUpgradeRequiredShortCircuit ==
    (Returned /\ required_upgrade_on = None)
        => /\ CallsNamed(ApplyCalls \cup WorkloadScaleCalls \cup CleanupCalls
                            \cup AutoscalerCalls) = {}
           /\ upgrade_result \in {Some(Ok("unit"))} \cup {Some(e) : e \in PreparationErrors}

\* C12 as stated: with required_upgrade_on None the routine always returns success.
C12_AsStated ==
    (Returned /\ required_upgrade_on = None)
        => /\ CallsNamed(ApplyCalls \cup WorkloadScaleCalls \cup CleanupCalls
                            \cup AutoscalerCalls) = {}
           /\ upgrade_result = Some(Ok("unit"))

\* the routine returned Ok(()) from the None arm of the match
C12_Witness ==
    /\ Returned
    /\ required_upgrade_on = None
    /\ upgrade_result = Some(Ok("unit"))
    /\ ~guard_armed

\* the IaC applies of the log, the context each was rendered with, and whether
\* an apply is the first successful one to carry the requested version for a tier
ApplyPositions == CallsNamed(ApplyCalls)
RenderedWith(i) == calls[i][2]
FirstApply(i) == i \in ApplyPositions /\ \A j \in ApplyPositions : i <= j
MovesMasters(i) ==
    /\ RenderedWith(i).kubernetes_master_version = requested_version
    /\ ~\E j \in ApplyPositions :
          /\ j < i
          /\ calls[j][3] = "Ok"
          /\ RenderedWith(j).kubernetes_master_version = requested_version
MovesWorkers(i) ==
    /\ RenderedWith(i).eks_workers_version = requested_version
    /\ ~\E j \in ApplyPositions :
          /\ j < i
          /\ calls[j][3] = "Ok"
          /\ RenderedWith(j).eks_workers_version = requested_version

\* C13: when required_upgrade_on is Masters, the first IaC apply is rendered with
\* the masters at requested_version and the workers at deployed_masters_version,
\* and no apply of the invocation is the one that brings both the masters and the
\* workers to the requested version.
C13_TiersNeverUpgradedTogether ==
    (required_upgrade_on = Some("Masters"))
        => \A i \in ApplyPositions :
              /\ FirstApply(i)
                    => /\ RenderedWith(i).kubernetes_master_version = requested_version
                       /\ RenderedWith(i).eks_workers_version = deployed_masters_version
              /\ ~(MovesMasters(i) /\ MovesWorkers(i))

\* a masters upgrade that went through both applies: the first moved the masters,
\* the second the workers
C13_Witness ==
    /\ Returned
    /\ required_upgrade_on = Some("Masters")
    /\ \E i, j \in ApplyPositions :
          /\ i < j
          /\ MovesMasters(i) /\ ~MovesWorkers(i)
          /\ MovesWorkers(j) /\ ~MovesMasters(j)

\* the apply of the master phase is the first apply of a run that started with
\* Masters; every other apply is the apply of the worker phase
MasterApplyAt == {i \in ApplyPositions : required_upgrade_on = Some("Masters") /\ FirstApply(i)}
WorkerApplyAt == ApplyPositions \ MasterApplyAt
Failed(i) == calls[i][3] = "Err"

\* C14: once the apply of the master phase has failed, the routine has returned
\* the terraform error and that apply is its last call: no workload was scaled,
\* no pod or job deleted, no scale request sent to the autoscaler, and no second
\* apply invoked.
C14_MasterApplyFailureAborts ==
    \A i \in MasterApplyAt :
        Failed(i)
            => /\ Returned
               /\ upgrade_result = Some(Err("terraform"))
               /\ i = Len(calls)
               /\ ApplyPositions = {i}
               /\ CallsNamed(WorkloadScaleCalls \cup CleanupCalls \cup AutoscalerCalls) = {}

\* the apply of the master phase failed
C14_Witness ==
    /\ Returned
    /\ \E i \in MasterApplyAt : Failed(i)

PollCalls == {"check_workers_on_upgrade"}

\* C15: once the apply of the worker phase has failed, the result of the routine
\* is the terraform error and the workers are never polled; by the time the
\* routine has returned, a scale-to-1 request to the autoscaler was issued after
\* the failed apply.
C15_WorkerApplyFailureStillRestores ==
    \A i \in WorkerApplyAt :
        Failed(i)
            => /\ upgrade_result = Some(Err("terraform"))
               /\ CallsNamed(PollCalls) = {}
               /\ Returned => \E j \in RestoreRequestedAt : j > i

\* the apply of the worker phase failed and the routine has returned
C15_Witness ==
    /\ Returned
    /\ \E i \in WorkerApplyAt : Failed(i) /\ \E j \in RestoreRequestedAt : j > i

\* the workloads that received a scale request (the replicas number of the
\* request is the literal 0), and the workloads the loops have gone past
ScaledDeployments == {calls[i][2] : i \in CallsNamed({"set_deployment_replicas_number"})}
ScaledStatefulsets == {calls[i][2] : i \in CallsNamed({"set_statefulset_replicas_number"})}
StatefulsetsListed == CallsNamed({"get_statefulsets"}) # {}
QuarantineDone == CallsNamed({"delete_crashlooping_pods"}) # {}
DeploymentsPassed ==
    IF StatefulsetsListed THEN DOMAIN deployments
    ELSE IF pc = "deployments" THEN 1..(idx - 1)
    ELSE {}
StatefulsetsPassed ==
    IF QuarantineDone THEN DOMAIN statefulsets
    ELSE IF pc = "statefulsets" THEN 1..(idx - 1)
    ELSE {}
\* observed replicas > 0 and ready_replicas == 0, a missing count read as 0
DeploymentUnhealthy(i) ==
    LET status == deployments[i].status IN
    /\ status # None
    /\ status[1].replicas # None
    /\ status[1].replicas[1] > 0
    /\ status[1].ready_replicas \in {None, Some(0)}
StatefulsetUnhealthy(i) ==
    LET status == statefulsets[i].status IN
    /\ status # None
    /\ status[1].replicas > 0
    /\ status[1].ready_replicas \in {None, Some(0)}

IsRestoration(i) == calls[i][1] \in AutoscalerCalls /\ calls[i][2] = 1
IsPodSnapshot(i) == calls[i][1] = "get_pods"
ErrorOf(i) ==
    CASE calls[i][1] = "terraform_init_validate_plan_apply" -> Err("terraform")
      [] calls[i][1] = "get_deployments" -> Err("k8s_get_deployments")
      [] calls[i][1] = "set_deployment_replicas_number" -> Err("k8s_scale_replicas")
      [] calls[i][1] = "get_statefulsets" -> Err("k8s_get_statefulsets")
      [] calls[i][1] = "set_statefulset_replicas_number" -> Err("k8s_scale_replicas")
      [] calls[i][1] = "delete_crashlooping_pods" -> Err("k8s_delete_pods")
      [] calls[i][1] = "delete_completed_jobs" -> Err("k8s_delete_jobs")
      [] calls[i][1] = "kubectl_exec_scale_replicas" -> Err("k8s_scale_replicas")
      [] calls[i][1] = "check_workers_on_upgrade" -> Err("k8s_node_not_ready")
\* the failed calls among the master apply, the worker apply, the workload
\* listings and scales, the pod and job cleanup, the autoscaler suspension and
\* the worker polling
FailedCalls ==
    {i \in 1..Len(calls) : /\ Len(calls[i]) = 3
                           /\ calls[i][3] = "Err"
                           /\ ~IsRestoration(i)
                           /\ ~IsPodSnapshot(i)}

\* C17: no call is issued twice (no two entries of the log have the same name
\* and the same argument); after a failed master apply, worker apply, workload
\* listing or scale, pod or job cleanup, autoscaler suspension or worker polling,
\* every later call is the autoscaler restoration, and the result of the routine
\* is the error of that failed call.
C17_NoRetryFailureIsTerminal ==
    /\ \A i, j \in 1..Len(calls) :
          (calls[i][1] = calls[j][1] /\ calls[i][2] = calls[j][2]) => i = j
    /\ \A i \in FailedCalls :
          /\ \A j \in 1..Len(calls) : j > i => IsRestoration(j)
          /\ upgrade_result = Some(ErrorOf(i))

\* the worker polling failed, the restoration was requested after it, and the
\* routine has returned
C17_Witness ==
    /\ Returned
    /\ \E i \in FailedCalls :
          /\ calls[i][1] = "check_workers_on_upgrade"
          /\ \E j \in 1..Len(calls) : j > i /\ IsRestoration(j)

\* C18: when the worker polling has failed, the result of the routine is an
\* error of kind NodeNotReadyAfterUpgrade; when an IaC apply has failed, the
\* result is an error of another kind; and the workers are polled only after
\* the apply of the worker phase has returned Ok.
C18_PollingFailureHasItsOwnKind ==
    /\ \A i \in CallsNamed(PollCalls) :
          /\ \E j \in WorkerApplyAt : j < i /\ ~Failed(j)
          /\ Failed(i)
                => /\ upgrade_result # None
                   /\ ~upgrade_result[1].ok
                   /\ ErrorKind(upgrade_result[1]) = "NodeNotReadyAfterUpgrade"
    /\ \A i \in ApplyPositions :
          Failed(i)
                => /\ upgrade_result # None
                   /\ ~upgrade_result[1].ok
                   /\ ErrorKind(upgrade_result[1]) # "NodeNotReadyAfterUpgrade"

\* the worker apply succeeded, the polling after it failed, and the routine has
\* returned the polling's error
C18_Witness ==
    /\ Returned
    /\ \E i \in CallsNamed(PollCalls) : Failed(i)
    /\ upgrade_result = Some(Err("k8s_node_not_ready"))

\* C2: in every terminal state of the routine, an autoscaler that had at least
\* one replica before the call does not have 0 replicas after it.
C2_AutoscalerNotLeftDisabled ==
    (Returned /\ replicas_before >= 1) => autoscaler_replicas # 0

\* the pod snapshot was not obtained: no listing of the pods has returned Ok
\* (no client to ask, or the listing failed)
SnapshotUnavailable ==
    ~\E i \in 1..Len(calls) : IsPodSnapshot(i) /\ calls[i][3] = "Ok"
PodListingFailed ==
    \E i \in 1..Len(calls) : IsPodSnapshot(i) /\ calls[i][3] = "Err"

AutoscalerDisabledIn(ctx) == ToString(ctx.enable_cluster_autoscaler) = ToString(FALSE)
WorkerContextApplies ==
    {i \in ApplyPositions : /\ AutoscalerDisabledIn(RenderedWith(i))
                            /\ RenderedWith(i).eks_workers_version = requested_version}
MasterContextApplies ==
    {i \in ApplyPositions : /\ ~AutoscalerDisabledIn(RenderedWith(i))
                            /\ RenderedWith(i).kubernetes_master_version = requested_version
                            /\ RenderedWith(i).eks_workers_version = deployed_masters_version}
\* the calls of the worker phase (every call but the pod snapshot and the apply
\* of the master context), and the place of each in the order of the phase:
\* listing and scaling of the Deployments, listing and scaling of the
\* StatefulSets, deletion of the crash-looping pods, deletion of the completed
\* Jobs, autoscaler to 0, apply, polling of the workers, autoscaler to 1
InWorkerPhase(i) ==
    /\ ~IsPodSnapshot(i)
    /\ calls[i][1] \in ApplyCalls => AutoscalerDisabledIn(RenderedWith(i))
PlaceInWorkerPhase(i) ==
    CASE calls[i][1] \in {"get_deployments", "set_deployment_replicas_number"} -> 1
      [] calls[i][1] \in {"get_statefulsets", "set_statefulset_replicas_number"} -> 2
      [] calls[i][1] = "delete_crashlooping_pods" -> 3
      [] calls[i][1] = "delete_completed_jobs" -> 4
      [] calls[i][1] \in AutoscalerCalls /\ calls[i][2] = 0 -> 5
      [] calls[i][1] \in ApplyCalls -> 6
      [] calls[i][1] \in PollCalls -> 7
      [] calls[i][1] \in AutoscalerCalls /\ calls[i][2] = 1 -> 8
SucceededBefore(i, name, arg) ==
    \E j \in 1..(i - 1) : calls[j][1] = name /\ calls[j] = <<name, arg, "Ok">>
WorkerPhaseInOrder ==
    /\ \A j \in 1..Len(calls) : \A i \in 1..(j - 1) :
          (InWorkerPhase(i) /\ InWorkerPhase(j)) => PlaceInWorkerPhase(i) <= PlaceInWorkerPhase(j)
    /\ \A i \in CallsNamed({"delete_crashlooping_pods"}) : calls[i][2] = 3
    /\ \A i \in WorkerContextApplies :
          /\ SucceededBefore(i, "get_deployments", 0)
          /\ SucceededBefore(i, "get_statefulsets", 0)
          /\ SucceededBefore(i, "delete_crashlooping_pods", 3)
          /\ SucceededBefore(i, "delete_completed_jobs", 0)
          /\ SucceededBefore(i, "kubectl_exec_scale_replicas", 0)
    /\ \A i \in CallsNamed(PollCalls) : \E j \in WorkerContextApplies : j < i

\* C29: the calls of the worker phase are issued in the order Deployment
\* scalings, StatefulSet scalings, deletion of the crash-looping pods (threshold
\* 3), deletion of the completed Jobs, autoscaler to 0, apply, polling of the
\* workers, autoscaler to 1; the apply of the worker phase comes after each of
\* the calls before it has succeeded; and the autoscaler has 0 replicas when
\* that apply is invoked and when it returns.
C29_WorkerPhaseOrder ==
    [][/\ WorkerPhaseInOrder'
       /\ WorkerContextApplies' # WorkerContextApplies =>
              (autoscaler_replicas = 0 /\ autoscaler_replicas' = 0)]_vars

\* a whole worker phase has run: a Deployment and a StatefulSet were scaled, the
\* apply and the polling returned Ok, and the autoscaler was asked for 1 replica
C29_Witness ==
    /\ Returned
    /\ CallsNamed({"set_deployment_replicas_number"}) # {}
    /\ CallsNamed({"set_statefulset_replicas_number"}) # {}
    /\ \E i \in WorkerContextApplies : calls[i][3] = "Ok"
    /\ \E i \in CallsNamed(PollCalls) : calls[i][3] = "Ok"
    /\ \E i \in 1..Len(calls) : calls[i] = <<"kubectl_exec_scale_replicas", 1, "Ok">>
    /\ upgrade_result = Some(Ok("unit"))

MasterApplySucceededBefore(i) ==
    \E j \in MasterContextApplies : j < i /\ calls[j][3] = "Ok"

\* C30: no apply is invoked when no upgrade is required; at most one, rendered
\* with the worker context, when the workers are to be upgraded; at most two,
\* of which at most one with each context, when the masters are. Every apply
\* is rendered either with the master context or with the worker context
\* (autoscaler disabled, workers at requested_version); when the masters are
\* to be upgraded, every call other than the pod snapshot and the master apply
\* comes after a master apply that returned Ok.
C30_ApplyCountAndOrder ==
    /\ ApplyPositions = MasterContextApplies \cup WorkerContextApplies
    /\ required_upgrade_on = None => ApplyPositions = {}
    /\ required_upgrade_on = Some("Workers") =>
          /\ Cardinality(ApplyPositions) <= 1
          /\ MasterContextApplies = {}
    /\ required_upgrade_on = Some("Masters") =>
          /\ Cardinality(ApplyPositions) <= 2
          /\ Cardinality(MasterContextApplies) <= 1
          /\ Cardinality(WorkerContextApplies) <= 1
          /\ \A i \in 1..Len(calls) :
                (~IsPodSnapshot(i) /\ i \notin MasterContextApplies) => MasterApplySucceededBefore(i)

\* the masters were to be upgraded and both applies were invoked, the one of
\* the master context before the one of the worker context
C30_Witness ==
    /\ Returned
    /\ required_upgrade_on = Some("Masters")
    /\ \E i \in MasterContextApplies, j \in WorkerContextApplies : i < j /\ calls[j][3] = "Ok"

\* the failed calls of the worker preparation that come before the suspension
\* of the autoscaler
PreparationCalls ==
    {"get_deployments", "set_deployment_replicas_number", "get_statefulsets",
     "set_statefulset_replicas_number", "delete_crashlooping_pods", "delete_completed_jobs"}
FailedPreparation == {i \in CallsNamed(PreparationCalls) : calls[i][3] = "Err"}

\* C33: once a listing of the Deployments or StatefulSets, a scaling of a
\* workload to 0, the deletion of the crash-looping pods or the deletion of the
\* completed Jobs has failed, the routine has returned the error of that call,
\* which is the last call it made: no scale request went to the autoscaler, no
\* apply was invoked with the worker context, and nothing was sent for the
\* workloads scaled before.
C33_PreparationFailureLeavesAutoscalerAlone ==
    \A i \in FailedPreparation :
        /\ Returned
        /\ upgrade_result = Some(ErrorOf(i))
        /\ i = Len(calls)
        /\ CallsNamed(AutoscalerCalls) = {}
        /\ WorkerContextApplies = {}
        /\ autoscaler_replicas = replicas_before

\* a Deployment was scaled to 0, then the scaling of a StatefulSet failed
C33_Witness ==
    /\ Returned
    /\ \E i \in CallsNamed({"set_deployment_replicas_number"}) : calls[i][3] = "Ok"
    /\ \E i \in FailedPreparation : calls[i][1] = "set_statefulset_replicas_number"
    /\ upgrade_result = Some(Err("k8s_scale_replicas"))

\* the requests set_cluster_autoscaler_replicas(.., n) of the invocation, and
\* whether the one at position i returned Ok (its scale command followed and
\* returned Ok)
ScaleRequests(n) ==
    {i \in 1..Len(calls) : calls[i][1] = "set_cluster_autoscaler_replicas" /\ calls[i][2] = n}
ScaleRequestSucceeded(i) ==
    /\ i < Len(calls)
    /\ calls[i + 1][1] = "kubectl_exec_scale_replicas"
    /\ calls[i + 1][3] = "Ok"
ErrorOfScaleRequest(i) ==
    IF i = Len(calls) THEN Err("kubeconfig") ELSE Err("k8s_scale_replicas")

\* C34: set_cluster_autoscaler_replicas(.., 1) is requested at most once in an
\* invocation, and only after a request for 0 replicas that returned Ok; once
\* the request for 0 replicas has returned an error, the routine has returned
\* that error, no request for 1 replica was made and no apply was invoked with
\* the worker context.
C34_RestoreOnlyAfterSuspension ==
    /\ Cardinality(ScaleRequests(1)) <= 1
    /\ Cardinality(ScaleRequests(0)) <= 1
    /\ \A i \in ScaleRequests(1) :
          \E j \in ScaleRequests(0) : j < i /\ ScaleRequestSucceeded(j)
    /\ \A j \in ScaleRequests(0) :
          ~ScaleRequestSucceeded(j)
              => /\ Returned
                 /\ upgrade_result = Some(ErrorOfScaleRequest(j))
                 /\ ScaleRequests(1) = {}
                 /\ WorkerContextApplies = {}

\* the scale command for 0 replicas failed and the routine returned its error
C34_Witness ==
    /\ Returned
    /\ \E j \in ScaleRequests(0) :
          /\ j + 1 = Len(calls)
          /\ calls[j + 1] = <<"kubectl_exec_scale_replicas", 0, "Err">>
    /\ upgrade_result = Some(Err("k8s_scale_replicas"))
    /\ ScaleRequests(1) = {}

\* the request for 0 replicas returned Ok and one request for 1 replica followed
C34_WitnessRestored ==
    /\ Returned
    /\ \E j \in ScaleRequests(0) : ScaleRequestSucceeded(j)
    /\ Cardinality(ScaleRequests(1)) = 1

(***************************************************************************)
(* Properties of delete_eks_nodegroups, checked under SpecDelete           *)
(***************************************************************************)
DeleteReturned == delete_pc = "returned"
\* the delete requests sent so far, in order
DeleteRequests == SelectSeq(aws_calls, LAMBDA c : c[1] = "delete_nodegroup")
\* describe_nodegroups has returned the described list, and everything in it
\* was taken as removable
Described == \E j \in 1..Len(aws_calls) : aws_calls[j] = <<"describe_nodegroups", cluster_name, "Ok">>
DeletesEverything ==
    /\ is_first_install \/ nodegroup_delete_selection = "All"
    /\ Described
    /\ delete_pc \in {"delete_loop", "returned"}
\* the name under which a described node group is asked to be deleted
RequestedName(described) ==
    IF described.nodegroup[1].nodegroup_name = None THEN "unknown_nodegroup_name"
    ELSE described.nodegroup[1].nodegroup_name[1]
\* the requests sent are for the first described node groups, one each, in the
\* order of the list, and none but the last has failed
RequestsFollowDescribedOrder ==
    /\ Len(DeleteRequests) <= Len(all_cluster_nodegroups_described)
    /\ \A j \in 1..Len(DeleteRequests) :
          /\ all_cluster_nodegroups_described[j].nodegroup # None
          /\ DeleteRequests[j][2] = RequestedName(all_cluster_nodegroups_described[j])
          /\ j < Len(DeleteRequests) => DeleteRequests[j][3] = "Ok"
EveryPoolRequested ==
    /\ Len(DeleteRequests) = Len(all_cluster_nodegroups_described)
    /\ \A j \in 1..Len(DeleteRequests) : DeleteRequests[j][3] = "Ok"
    /\ delete_result = Some(Ok("unit"))
StoppedAtFailedDelete ==
    /\ DeleteRequests # <<>>
    /\ DeleteRequests[Len(DeleteRequests)][3] = "Err"
    /\ delete_result # None
    /\ ~delete_result[1].ok
    /\ delete_result[1].err.constructor = "nodegroup_delete_error"
StoppedAtMissingNodegroup ==
    /\ Len(DeleteRequests) < Len(all_cluster_nodegroups_described)
    /\ \A j \in 1..Len(DeleteRequests) : DeleteRequests[j][3] = "Ok"
    /\ all_cluster_nodegroups_described[Len(DeleteRequests) + 1].nodegroup = None
    /\ delete_result = Some(Err(EngineError("missing_nodegroup_information_error", None)))

\* C19, with the case it leaves out: when is_first_install is true or the mode
\* is All, no health check is applied and the delete requests go to the described
\* node groups one by one in the order of the list, whatever their status, until
\* all have been requested (which may remove every node group), a delete fails,
\* or an entry of the list carries no node group, on which the function returns
\* the missing-information error.
C19_DeletesEveryDescribedPool ==
    DeletesEverything
        => /\ RequestsFollowDescribedOrder
           /\ DeleteReturned
                 => \/ EveryPoolRequested
                    \/ StoppedAtFailedDelete
                    \/ StoppedAtMissingNodegroup

\* C19 as stated: the requests go on until all described node groups have been
\* requested or a delete fails.
C19_AsStated ==
    DeletesEverything
        => /\ RequestsFollowDescribedOrder
           /\ DeleteReturned => (EveryPoolRequested \/ StoppedAtFailedDelete)

\* a run outside first install in mode All over two node groups, one of them
\* Active, that deleted both and left the cluster without node group
C19_Witness ==
    /\ DeletesEverything
    /\ DeleteReturned
    /\ ~is_first_install
    /\ EveryPoolRequested
    /\ Len(DeleteRequests) = 2
    /\ \E j \in 1..2 : all_cluster_nodegroups_described[j].nodegroup[1].status = Some("Active")
    /\ cluster_nodegroups = {}

\* C20: a failed delete request is the last request the function sends: it has
\* returned the delete error with the name it asked to delete, and the node
\* groups whose delete succeeded before are no longer in the cluster (the
\* function sends nothing but listings, the description and deletes).
C20_FirstFailedDeleteAborts ==
    /\ \A j \in 1..Len(aws_calls) :
          aws_calls[j][1] \in {"list_clusters", "list_all_eks_nodegroups",
                                "describe_nodegroups", "delete_nodegroup"}
    /\ \A j \in 1..Len(DeleteRequests) :
          IF DeleteRequests[j][3] = "Ok"
          THEN DeleteRequests[j][2] \notin cluster_nodegroups
          ELSE /\ j = Len(DeleteRequests)
               /\ aws_calls[Len(aws_calls)] = DeleteRequests[j]
               /\ DeleteReturned
               /\ delete_result = Some(Err(EngineError("nodegroup_delete_error",
                                                        Some(DeleteRequests[j][2]))))

\* the first delete succeeded, the second failed: the first node group is gone
\* from the cluster, the second still there, and the error names the second
C20_Witness ==
    /\ DeleteReturned
    /\ Len(DeleteRequests) = 2
    /\ DeleteRequests[1][3] = "Ok"
    /\ DeleteRequests[2][3] = "Err"
    /\ DeleteRequests[1][2] \notin cluster_nodegroups
    /\ DeleteRequests[2][2] \in cluster_nodegroups
    /\ delete_result[1].err.nodegroup_name = Some(DeleteRequests[2][2])

\* outside first install in mode FailedOnly: the described node groups whose
\* status is CreateFailed, DeleteFailed or Degraded, in the order of the list,
\* and the lists for which the selection is refused (a node group without
\* nodegroup(), or every node group failed)
FailedOnlyRun == ~is_first_install /\ nodegroup_delete_selection = "FailedOnly"
HasFailedStatus(described) ==
    /\ described.nodegroup # None
    /\ described.nodegroup[1].status # None
    /\ described.nodegroup[1].status[1] \in {"CreateFailed", "DeleteFailed", "Degraded"}
FailedDescribed == SelectSeq(all_cluster_nodegroups_described, HasFailedStatus)
SelectionRefused ==
    \/ \E j \in 1..Len(all_cluster_nodegroups_described) :
          all_cluster_nodegroups_described[j].nodegroup = None
    \/ /\ all_cluster_nodegroups_described # <<>>
       /\ Len(FailedDescribed) = Len(all_cluster_nodegroups_described)

\* C31: outside first install in mode FailedOnly, the delete requests sent are
\* for the first described node groups of status CreateFailed, DeleteFailed or
\* Degraded, one each, in the order of the list; and when the selection is
\* refused (every node group failed, or one without nodegroup()), no delete
\* request is ever sent and the function returns an error.
C31_FailedOnlyDeletesFailedPoolsInOrder ==
    FailedOnlyRun
        => /\ Len(DeleteRequests) <= Len(FailedDescribed)
           /\ \A j \in 1..Len(DeleteRequests) :
                 DeleteRequests[j][2] = RequestedName(FailedDescribed[j])
           /\ SelectionRefused
                 => /\ DeleteRequests = <<>>
                    /\ delete_pc # "delete_loop"
                    /\ DeleteReturned => ~delete_result[1].ok

\* of three node groups the first and the third had failed, the second was
\* Active: the two failed ones were deleted, in that order
C31_Witness ==
    /\ FailedOnlyRun
    /\ DeleteReturned
    /\ delete_result = Some(Ok("unit"))
    /\ Len(all_cluster_nodegroups_described) = 3
    /\ all_cluster_nodegroups_described[2].nodegroup[1].status = Some("Active")
    /\ Len(DeleteRequests) = 2
    /\ DeleteRequests[1][2] = NodegroupName(1)
    /\ DeleteRequests[2][2] = NodegroupName(3)

\* the selection was refused for a list whose node groups had all failed
C31_WitnessRefused ==
    /\ FailedOnlyRun
    /\ DeleteReturned
    /\ Described
    /\ Len(FailedDescribed) = 2
    /\ Len(all_cluster_nodegroups_described) = 2
    /\ delete_result = Some(Err(EngineError("nodegroup_delete_any_nodegroup_error", None)))

(***************************************************************************)
(* Properties of the step registry, checked under SpecRegistry             *)
(***************************************************************************)
\* the step in which path h finishes dropping its handle
Releases(h) == Live(h) /\ handles'[h].pc = "idle"
\* what get_records(id) holds for one step
RecordsOf(reg, id, step_name) == {r \in get_records(reg, id) : r.step_name = step_name}
\* the number of records of the key (id, step_name) sent to the sink
SentFor(snk, id, step_name) ==
    BagCardinality([r \in {x \in BagToSet(snk) : x.id = id /\ x.step_name = step_name}
                        |-> snk[r]])

\* C3: every start is matched by exactly one published finished record. Never
\* more than one: no step publishes the record of a key whose record is already
\* finished (a start would have replaced it by an unfinished one). Never zero: the
\* release of a handle leaves the record of its key finished.
C3_ExactlyOnePublishPerStart ==
    [][/\ \A k \in Keys :
            SentFor(sink', k[1], k[2]) > SentFor(sink, k[1], k[2])
                => ~record_is_stopped(registry, k[1], k[2])
       /\ \A h \in Paths :
            Releases(h) => record_is_stopped(registry', handles[h].id, handles[h].name)]_vars

\* C4, with the condition it needs: a handle released without any explicit stop
\* for its key, and without a clear() since its start, leaves in get_records(id)
\* exactly one record for its step, with status NotSet and a duration.
C4_ReleaseWithoutStopGivesNotSet ==
    [][\A h \in Paths :
        (Releases(h) /\ history[h].explicit = None /\ ~history[h].cleared)
            => LET recs == RecordsOf(registry', handles[h].id, handles[h].name) IN
               /\ Cardinality(recs) = 1
               /\ \A r \in recs : r.status = Some("NotSet") /\ IsSome(r.duration)]_vars

\* C4 as stated, for every release without an explicit stop: start, clear, release
\* leaves no record.
C4_AsStated ==
    [][\A h \in Paths :
        (Releases(h) /\ history[h].explicit = None)
            => LET recs == RecordsOf(registry', handles[h].id, handles[h].name) IN
               /\ Cardinality(recs) = 1
               /\ \A r \in recs : r.status = Some("NotSet") /\ IsSome(r.duration)]_vars

\* every handle has been released, one record was sent, with status NotSet, and
\* the registry holds it: a drop finalized it, since no explicit stop passes NotSet
C4_Witness ==
    /\ \A h \in Paths : handles[h].pc = "idle"
    /\ BagCardinality(sink) = 1
    /\ \E r \in BagToSet(sink) :
        /\ r.status = Some("NotSet")
        /\ IsSome(r.duration)
        /\ RecordsOf(registry, r.id, r.step_name) = {r}

\* C5: a handle released after an explicit stop(S) for its key leaves in
\* get_records(id) exactly one record for its step, with a duration and status S,
\* and that record has been sent to the sink. Stated for the handles whose
\* record no clear() and no later start has replaced.
C5_ExplicitStopKept ==
    [][\A h \in Paths :
        (/\ Releases(h)
         /\ IsSome(history[h].explicit)
         /\ ~history[h].cleared
         /\ ~history[h].restarted)
            => LET recs == RecordsOf(registry', handles[h].id, handles[h].name) IN
               /\ Cardinality(recs) = 1
               /\ \A r \in recs : /\ r.status = history[h].explicit
                                   /\ IsSome(r.duration)
                                   /\ BagIn(r, sink')]_vars

\* C22: a finished record is immutable: in a step that leaves the record of a key
\* finished (a stop call or the release of a handle; a start replaces the record
\* by an unfinished one and a clear removes it), the record keeps its duration
\* and its status and nothing more is sent to the sink for its key.
C22_FinishedRecordImmutable ==
    [][\A k \in Keys :
        (record_is_stopped(registry, k[1], k[2]) /\ record_is_stopped(registry', k[1], k[2]))
            => /\ registry'[k[1]][k[2]].duration = registry[k[1]][k[2]].duration
               /\ registry'[k[1]][k[2]].status = registry[k[1]][k[2]].status
               /\ SentFor(sink', k[1], k[2]) = SentFor(sink, k[1], k[2])]_vars

\* the steps of id that have a record in the registry, and the handles whose
\* record nothing has finished since they were obtained
StartedSteps(id) == IF id \in DOMAIN registry THEN DOMAIN registry[id] ELSE {}
StillRunning(h) ==
    /\ handles[h].pc = "held"
    /\ history[h].explicit = None
    /\ ~history[h].overwritten

\* C23: get_records(id) holds exactly the records of id that have a duration: it
\* is empty when id has no started step, it holds no record for the key of a
\* handle that is still held and that nothing has stopped, and
\* record_is_stopped(id, step) is true iff it holds a record for step.
C23_GetReturnsExactlyFinishedRecords ==
    \A id \in Ids :
        /\ \A r \in get_records(registry, id) :
              /\ r.id = id
              /\ r.duration # None
              /\ r.step_name \in StartedSteps(id)
              /\ registry[id][r.step_name] = r
        /\ \A step_name \in StartedSteps(id) :
              registry[id][step_name].duration # None
                  => registry[id][step_name] \in get_records(registry, id)
        /\ StartedSteps(id) = {} => get_records(registry, id) = {}
        /\ \A h \in Paths :
              (StillRunning(h) /\ handles[h].id = id)
                  => RecordsOf(registry, id, handles[h].name) = {}
        /\ \A k \in Keys :
              k[1] = id => (record_is_stopped(registry, id, k[2])
                                <=> RecordsOf(registry, id, k[2]) # {})

\* entity 1 has a finished record and a record whose handle is still held:
\* get_records returns the first alone
C23_Witness ==
    /\ Cardinality(StartedSteps(1)) = 2
    /\ Cardinality(get_records(registry, 1)) = 1
    /\ \E h \in Paths : StillRunning(h) /\ handles[h].id = 1
    /\ StartedSteps(2) = {}

\* the step in which path h obtains a handle from start_record
Starts(h) == handles[h].pc = "idle" /\ handles'[h].pc = "held"

\* C24: a start is accepted whether or not its key has a record: after it the
\* key's record has no duration and no status, record_is_stopped is false for the
\* key and get_records holds no record for it; and get_records never holds more
\* than one record per key.
C24_StartReplacesRecord ==
    [][/\ \A h \in Paths :
            Starts(h)
                => LET id == handles'[h].id
                       step_name == handles'[h].name
                   IN /\ id \in DOMAIN registry'
                      /\ step_name \in DOMAIN registry'[id]
                      /\ registry'[id][step_name].duration = None
                      /\ registry'[id][step_name].status = None
                      /\ ~record_is_stopped(registry', id, step_name)
                      /\ RecordsOf(registry', id, step_name) = {}
       /\ \A k \in Keys : Cardinality(RecordsOf(registry', k[1], k[2])) <= 1]_vars

\* a key was started, stopped explicitly and started again by another path: the
\* finished record was sent, and the record now in the registry is unfinished
C24_Witness ==
    \E g, h \in Paths :
        /\ g # h
        /\ Live(g) /\ Live(h)
        /\ HandleKey(g) = HandleKey(h)
        /\ history[g].restarted
        /\ history[g].explicit # None
        /\ history[h] = NoHistory
        /\ SentFor(sink, handles[h].id, handles[h].name) = 1
        /\ handles[h].name \in StartedSteps(handles[h].id)
        /\ registry[handles[h].id][handles[h].name].duration = None

\* C35: the release of a handle never touches a record that an explicit stop
\* has finished: in the step that ends the release of a handle whose key has a
\* finished record with a status other than NotSet, the record keeps that status
\* and nothing is sent to the sink for the key, so that one finished record is
\* published for the stop and the release together.
C35_ReleaseKeepsExplicitStatus ==
    [][\A h \in Paths :
        (/\ Releases(h)
         /\ record_is_stopped(registry, handles[h].id, handles[h].name)
         /\ registry[handles[h].id][handles[h].name].status # Some("NotSet"))
            => /\ record_is_stopped(registry', handles[h].id, handles[h].name)
               /\ registry'[handles[h].id][handles[h].name].status
                      = registry[handles[h].id][handles[h].name].status
               /\ SentFor(sink', handles[h].id, handles[h].name)
                      = SentFor(sink, handles[h].id, handles[h].name)]_vars

\* the record of a key in a registry, if it has one, and the keys whose record
\* a step creates, changes or removes
RecordAt(reg, k) ==
    IF k[1] \in DOMAIN reg /\ k[2] \in DOMAIN reg[k[1]] THEN Some(reg[k[1]][k[2]]) ELSE None
ChangedKeys == {k \in Keys : RecordAt(registry', k) # RecordAt(registry, k)}

\* C36: a start, a stop or a release for one key leaves the record of every
\* other key as it is: a step that does not empty the registry (a clear)
\* changes the record of at most one key, which is the key of the handle a
\* start returns, the key of the handle a release drops, and the key of the
\* record a stop sends.
C36_OtherRecordsUnchanged ==
    [][\/ registry' = EmptyMap
       \/ /\ Cardinality(ChangedKeys) <= 1
          /\ \A h \in Paths :
                /\ Starts(h) => ChangedKeys \subseteq {HandleKey(h)'}
                /\ (Live(h) /\ handles'[h] # handles[h]) => ChangedKeys \subseteq {HandleKey(h)}
          /\ \A k \in Keys :
                SentFor(sink', k[1], k[2]) > SentFor(sink, k[1], k[2])
                    => ChangedKeys \subseteq {k}]_vars

\* three keys have a record: one finished by an explicit stop, one of the same
\* id finished by a release, and one of another id still unfinished
C36_Witness ==
    /\ RecordAt(registry, <<1, "Total">>) # None
    /\ registry[1]["Total"].status = Some("Success")
    /\ RecordAt(registry, <<1, "Deployment">>) # None
    /\ registry[1]["Deployment"].status = Some("NotSet")
    /\ RecordAt(registry, <<2, "Total">>) # None
    /\ registry[2]["Total"].duration = None

\* C37: in every state the registry reaches, stop_record for a key that has no
\* record, with any status, leaves the sink as it is, gives no key a record it
\* had not and changes none, and leaves get_records of every id and
\* record_is_stopped of every key as they were.
C37_StopOfUnstartedKeyIsNoOp ==
    \A k \in Keys, status \in StepStatus :
        RecordAt(registry, k) = None
            => LET r == stop_record(registry, sink, k[1], k[2], status) IN
               /\ r.sink = sink
               /\ \A other \in Keys :
                     /\ RecordAt(r.registry, other) = RecordAt(registry, other)
                     /\ record_is_stopped(r.registry, other[1], other[2])
                            = record_is_stopped(registry, other[1], other[2])
               /\ \A id \in Ids : get_records(r.registry, id) = get_records(registry, id)

\* id 1 has a finished record for one step and none for the other, and id 2 has
\* an entry in the registry with no record in it: a call for a key of id 2 found
\* nothing there
C37_Witness ==
    /\ RecordAt(registry, <<1, "Total">>) # None
    /\ registry[1]["Total"].duration # None
    /\ RecordAt(registry, <<1, "Deployment">>) = None
    /\ 2 \in DOMAIN registry
    /\ DOMAIN registry[2] = {}
    /\ BagCardinality(sink) = 1

\* a step that is a clear, seen from a handle that is live when it happens
ClearStep == \E h \in Paths : Live(h) /\ ~history[h].cleared /\ history'[h].cleared
NothingFinished(reg) ==
    /\ \A id \in Ids : get_records(reg, id) = {}
    /\ \A k \in Keys : ~record_is_stopped(reg, k[1], k[2])

\* C38, with the condition it needs: after a clear, get_records is empty for
\* every id and record_is_stopped false for every key; and while the key of a
\* handle obtained before the clear has not been started again since, no step
\* (a stop through the handle or the registry, the release of the handle)
\* sends a record for the key, and none but a start gives the key a record.
C38_ClearedHandleDoesNothing ==
    [][/\ ClearStep => NothingFinished(registry')
       /\ \A h \in Paths :
            (Live(h) /\ history[h].cleared /\ RecordAt(registry, HandleKey(h)) = None)
                => /\ SentFor(sink', handles[h].id, handles[h].name)
                          = SentFor(sink, handles[h].id, handles[h].name)
                   /\ RecordAt(registry', HandleKey(h)) # None
                          => \E g \in Paths : Starts(g) /\ HandleKey(g)' = HandleKey(h)]_vars

\* C38 as stated, for every release of a handle obtained before a clear: start,
\* clear, a start of the same key by another path, release.
C38_AsStated ==
    [][/\ ClearStep => NothingFinished(registry')
       /\ \A h \in Paths :
            (Releases(h) /\ history[h].cleared)
                => /\ SentFor(sink', handles[h].id, handles[h].name)
                          = SentFor(sink, handles[h].id, handles[h].name)
                   /\ RecordAt(registry', HandleKey(h)) = RecordAt(registry, HandleKey(h))]_vars

\* a handle obtained before a clear is being released: its is_stopped() found
\* no record, and nothing was sent
C38_Witness ==
    \E h \in Paths :
        /\ handles[h].pc = "stopping"
        /\ history[h].cleared
        /\ RecordAt(registry, HandleKey(h)) = None
        /\ handles[h].id \in DOMAIN registry
        /\ sink = EmptyBag

\* C39: every record of the registry has a duration if and only if it has a
\* status, and every record sent to the sink has both.
C39_DurationIffStatus ==
    /\ \A id \in DOMAIN registry : \A step_name \in DOMAIN registry[id] :
          (registry[id][step_name].duration # None) <=> (registry[id][step_name].status # None)
    /\ \A r \in BagToSet(sink) : r.duration # None /\ r.status # None

\* the registry holds a finished and an unfinished record, and the finished one
\* was sent
C39_Witness ==
    /\ \E id \in DOMAIN registry : \E step_name \in DOMAIN registry[id] :
          /\ registry[id][step_name].duration # None
          /\ registry[id][step_name].status = Some("Error")
          /\ BagIn(registry[id][step_name], sink)
    /\ \E id \in DOMAIN registry : \E step_name \in DOMAIN registry[id] :
          /\ registry[id][step_name].duration = None
          /\ registry[id][step_name].status = None

(***************************************************************************)
(* Properties of the registry mutex, checked under SpecLockFair            *)
(***************************************************************************)
AsksForMutex(p) == op[p].pc \in {"lock", "lock_stop"}
HoldsMutex(p) == op[p].pc \in {"locked", "locked_stop"}
InCall(p) == op[p].pc # "idle"

\* C40: no path asks for the registry mutex while it holds it, the mutex is
\* held by the one path that is inside a method, and under fair scheduling
\* every call a path has started (start, stop, is_stopped, get, clear or the
\* release of a handle) completes.
C40_EveryCallCompletes ==
    /\ [](\A p \in Paths :
            /\ AsksForMutex(p) => mutex # p
            /\ HoldsMutex(p) <=> mutex = p)
    /\ \A p \in Paths : InCall(p) ~> ~InCall(p)

\* a path is in the stop of a drop, holding the mutex, while the other waits
\* for it
C40_Witness ==
    \E p, q \in Paths :
        /\ op[p] = [kind |-> "drop", pc |-> "locked_stop"]
        /\ mutex = p
        /\ AsksForMutex(q)
        /\ ops_done[q] = 1

====
